---------------------------- MODULE Spec2Model ----------------------------
(***************************************************************************)
(* A model of the communication core of kmerind (bliss):                   *)
(*   - io/buffer.hpp            Buffer<THREAD_SAFE>: append, append_lockfree,*)
(*                              block, clear, getSize                      *)
(*   - io/CommunicationLayer.hpp  the tagged send/flush/receive layer      *)
(* Every thread of the program is a process of the model; a function of    *)
(* the source that is not atomic is cut into one action per atomic access  *)
(* of shared state.                                                        *)
(***************************************************************************)
EXTENDS Integers, Sequences, FiniteSets, TLC

(***************************************************************************)
(* Bounds of the model.                                                    *)
(***************************************************************************)
\* capacity of the Buffer under test (bytes)
BufCapacity == 2
\* largest byte count passed to one append call
MaxCount == 3
\* number of append calls in one run
MaxAppendCalls == 3
\* width of size_t in the model, in bits (the arithmetic on size is modulo 2^w);
\* wide enough that BufCapacity + 2 * MaxCount does not wrap, as no valid byte
\* count makes a 64-bit size wrap
SizeBits == 4
\* number of ranks (processes) of the communicator, commSize
NumRanks == 2
\* number of message tags in use
NumTags == 1
\* capacity of each buffer of a MessageBuffers (8192 in sendMessage), scaled down
MsgBufCapacity == 2
\* number of buffers each MessageBuffers owns (one per rank and a margin)
PoolSize == 3
\* number of buffer swaps followed in one run (a sendMessage whose payload
\* never fits swaps for ever)
MaxSwaps == 1
\* the number of requests the peer rank sends to the rank whose callback sends
MaxRemote == 7
\* the number of messages of zero bytes the peer rank sends
MaxRemoteEmpty == 2
\* the number of callback threads of a rank when there are several
NumCallbackThreads == 2
\* the number of sendMessage calls of each producer thread that sends in a loop
MaxSends == 3
\* the number of buffer swaps followed when producer threads send in a loop
MaxProducerSwaps == 2
\* number of buffers of a MessageBuffers when producer threads send in a loop
\* (one per rank and a margin of two)
ProducerPoolSize == 4
\* omp_get_num_threads() in the constructor, which runs outside any parallel region
omp_get_num_threads == 1

\* capacity of the ThreadSafeQueue under test (elements)
QueueCapacity == 2
\* number of push and pop calls made on the queue in one run
MaxQueueCalls == 3
\* width in bits of the queue's size word (int64_t in the source)
QueueSizeBits == 4

SizeModulus == 2 ^ SizeBits

\* unsigned arithmetic of std::atomic<size_t>
Wrap(x) == x % SizeModulus

(***************************************************************************)
(* State.                                                                  *)
(***************************************************************************)
VARIABLES
  buffer,        \* the Buffer: [capacity, size, blocked, data, mutex]
  appendCall,    \* per thread, the append call it is in: [pc, id, kind, count, s, ns]
  observed,      \* the value the last getSize() returned to the observer thread
  reserved,      \* history: the successful reservations since the last clear()
  returnedTrue,  \* history: how many append calls have returned true
  nAppendCalls,  \* how many append calls were started
  cleared,       \* clear() was called (it is called once in a run)
  clearRaced,    \* history: the last clear() ran while an append was in flight
  outOfBounds,   \* history: a memcpy wrote past data + capacity
  \* CommunicationLayer, one per rank
  callbackFunctions, \* rank -> (tag -> "fn" | "empty"): std::map of callbacks
  sendAccept,        \* rank -> set of tags
  recvRemaining,     \* rank -> (tag -> int): std::unordered_map
  buffers,           \* rank -> (tag -> MessageBuffers)
  sendQueue,         \* rank -> sequence of SendQueueElement
  recvQueue,         \* rank -> sequence of ReceivedMessage
  sendInProgress,    \* rank -> sequence of SendQueueElement (requests posted)
  recvInProgress,    \* rank -> sequence of ReceivedMessage (requests posted)
  network,           \* src -> dst -> sequence of messages the transport holds
  user,              \* rank -> user thread -> the call it is in
  commThread,        \* rank -> state of the communication thread
  callbackThread,    \* rank -> state of the callback thread
  crashed,           \* rank -> the process was terminated
  calls,             \* rank -> user thread -> how many API calls it has made
  hist,              \* history of the run, read by the properties only
  \* concurrent/lockfree_queue.hpp: one ThreadSafeQueue and its callers
  queue,             \* [capacity, size, q]: the size word and the stored elements
  queueCall,         \* per thread: the push or pop call in progress
  queueObserved,     \* the last value an observer got from getSize()
  queueHist          \* history of the queue, read by the properties only

bufVars == <<buffer, appendCall, observed, reserved, returnedTrue,
             nAppendCalls, cleared, clearRaced, outOfBounds>>

commVars == <<callbackFunctions, sendAccept, recvRemaining, buffers, sendQueue,
              recvQueue, sendInProgress, recvInProgress, network, user,
              commThread, callbackThread, crashed, calls, hist>>

queueVars == <<queue, queueCall, queueObserved, queueHist>>

vars == <<queue, queueCall, queueObserved, queueHist,
          buffer, appendCall, observed, reserved, returnedTrue,
          nAppendCalls, cleared, clearRaced, outOfBounds,
          callbackFunctions, sendAccept, recvRemaining, buffers, sendQueue,
          recvQueue, sendInProgress, recvInProgress, network, user,
          commThread, callbackThread, crashed, calls, hist>>

(***************************************************************************)
(* io/buffer.hpp: Buffer<THREAD_SAFE>                                      *)
(***************************************************************************)
\* the threads that call append / append_lockfree on the buffer
Appenders == {1, 2}

\* Buffer(const size_t _capacity): size 0, not blocked, data zeroed by memset
Buffer(_capacity) ==
  [capacity |-> _capacity, size |-> 0, blocked |-> FALSE,
   data |-> [i \in 1 .. _capacity |-> 0], mutex |-> 0]

\* size.load(std::memory_order_consume)
getSize(b) == b.size

\* blocked.load(std::memory_order_consume)
isBlocked(b) == b.blocked

\* blocked.store(true, std::memory_order_release)
block(b) == [b EXCEPT !.blocked = TRUE]

\* blocked.store(false, std::memory_order_release)
unblock(b) == [b EXCEPT !.blocked = FALSE]

\* size = 0UL; this->unblock()
clear(b) == unblock([b EXCEPT !.size = 0])

\* getSize() == 0
isEmpty(b) == getSize(b) = 0

\* std::unique_lock<std::mutex> lock(mutex) can be taken
MutexFree(b) == b.mutex = 0

\* size.fetch_add(count): the new value of size
fetch_add(b, count) == Wrap(b.size + count)

\* size.fetch_sub(count): the new value of size
fetch_sub(b, count) == Wrap(b.size + SizeModulus - count)

\* no capacity test at all: every reservation is taken to fit
ExceedsCapacityNever(b, s, count) == FALSE

\* the capacity test with >= in place of >: bytes that fill the buffer exactly
\* are rejected
ExceedsCapacityOrFills(b, s, count) == Wrap(s + count) >= b.capacity

\* the test "s + count > capacity" of append, and "ns > capacity" of append_lockfree
ExceedsCapacity(b, s, count) == Wrap(s + count) > b.capacity

\* a plain store in place of the compare-and-exchange: the exchange always takes place
StoreWithoutCompare(b, s) == TRUE

\* size.compare_exchange_strong(s, ns): whether the exchange takes place
compare_exchange_strong(b, s) == b.size = s

\* std::memcpy(data.get() + s, _data, count): the bytes of call id land in
\* cells s+1 .. s+count (the part that lies inside the allocation)
memcpy(b, s, count, id) ==
  [b EXCEPT !.data = [i \in 1 .. b.capacity |->
                        IF i > s /\ i <= s + count THEN id ELSE b.data[i]]]

Idle == [pc |-> "idle", id |-> 0, kind |-> "none", count |-> 0, s |-> 0, ns |-> 0]

\* the last call of the thread left by throw std::length_error("Buffer capacity is 0")
Thrown == [Idle EXCEPT !.kind = "length_error"]

\* append(_data, count), entry: the capacity test, which throws, and the
\* isBlocked() test, which returns false
AppendCall(t, count) ==
  /\ appendCall[t].pc = "idle"
  /\ nAppendCalls < MaxAppendCalls
  /\ nAppendCalls' = nAppendCalls + 1
  /\ appendCall' =
       IF buffer.capacity = 0
       THEN [appendCall EXCEPT ![t] = Thrown]
       ELSE IF isBlocked(buffer)
       THEN [appendCall EXCEPT ![t] = Idle]
       ELSE [appendCall EXCEPT ![t] =
               [pc |-> "lock", id |-> nAppendCalls + 1, kind |-> "append",
                count |-> count, s |-> 0, ns |-> 0]]
  /\ UNCHANGED <<buffer, observed, reserved, returnedTrue, cleared, clearRaced,
                 outOfBounds>>
  /\ UNCHANGED <<commVars, queueVars>>

\* append: lock(mutex); s = size.fetch_add(count); the capacity test;
\* lock.unlock() on the successful path
AppendFetchAdd(t) ==
  LET c == appendCall[t] IN
  /\ c.pc = "lock"
  /\ MutexFree(buffer)
  /\ IF ExceedsCapacity(buffer, buffer.size, c.count)
     THEN /\ buffer' = [buffer EXCEPT !.size = fetch_add(buffer, c.count),
                                      !.mutex = t]
          /\ appendCall' = [appendCall EXCEPT ![t].pc = "rollback",
                                              ![t].s = buffer.size]
          /\ UNCHANGED reserved
     ELSE /\ buffer' = [buffer EXCEPT !.size = fetch_add(buffer, c.count)]
          /\ appendCall' = [appendCall EXCEPT ![t].pc = "copy",
                                              ![t].s = buffer.size]
          /\ reserved' = reserved \cup
               {[id |-> c.id, kind |-> c.kind, s |-> buffer.size, count |-> c.count]}
  /\ UNCHANGED <<observed, returnedTrue, nAppendCalls, cleared, clearRaced,
                 outOfBounds>>
  /\ UNCHANGED <<commVars, queueVars>>

\* append: size.fetch_sub(count); return false (the lock is released)
AppendFetchSub(t) ==
  LET c == appendCall[t] IN
  /\ c.pc = "rollback"
  /\ buffer' = [buffer EXCEPT !.size = fetch_sub(buffer, c.count), !.mutex = 0]
  /\ appendCall' = [appendCall EXCEPT ![t] = Idle]
  /\ UNCHANGED <<observed, reserved, returnedTrue, nAppendCalls, cleared,
                 clearRaced, outOfBounds>>
  /\ UNCHANGED <<commVars, queueVars>>

\* append and append_lockfree: memcpy(data.get() + s, _data, count); return true
AppendMemcpy(t) ==
  LET c == appendCall[t] IN
  /\ c.pc = "copy"
  /\ buffer' = memcpy(buffer, c.s, c.count, c.id)
  /\ outOfBounds' = (outOfBounds \/ c.s + c.count > buffer.capacity)
  /\ returnedTrue' = returnedTrue + 1
  /\ appendCall' = [appendCall EXCEPT ![t] = Idle]
  /\ UNCHANGED <<observed, reserved, nAppendCalls, cleared, clearRaced>>
  /\ UNCHANGED <<commVars, queueVars>>

\* append_lockfree(typed_data, count), entry: the capacity test, which throws,
\* and the isBlocked() test, which returns false
LockfreeCall(t, count) ==
  /\ appendCall[t].pc = "idle"
  /\ nAppendCalls < MaxAppendCalls
  /\ nAppendCalls' = nAppendCalls + 1
  /\ appendCall' =
       IF buffer.capacity = 0
       THEN [appendCall EXCEPT ![t] = Thrown]
       ELSE IF isBlocked(buffer)
       THEN [appendCall EXCEPT ![t] = Idle]
       ELSE [appendCall EXCEPT ![t] =
               [pc |-> "load", id |-> nAppendCalls + 1, kind |-> "lockfree",
                count |-> count, s |-> 0, ns |-> 0]]
  /\ UNCHANGED <<buffer, observed, reserved, returnedTrue, cleared, clearRaced,
                 outOfBounds>>
  /\ UNCHANGED <<commVars, queueVars>>

\* append_lockfree: s = size.load(); ns = s + count; if (ns > capacity) return false
LockfreeLoad(t) ==
  LET c == appendCall[t] IN
  /\ c.pc = "load"
  /\ appendCall' =
       IF ExceedsCapacity(buffer, getSize(buffer), c.count)
       THEN [appendCall EXCEPT ![t] = Idle]
       ELSE [appendCall EXCEPT ![t].pc = "cas", ![t].s = getSize(buffer),
                               ![t].ns = Wrap(getSize(buffer) + c.count)]
  /\ UNCHANGED <<buffer, observed, reserved, returnedTrue, nAppendCalls, cleared,
                 clearRaced, outOfBounds>>
  /\ UNCHANGED <<commVars, queueVars>>

\* append_lockfree: one evaluation of the while condition
\* !size.compare_exchange_strong(s, ns) and, when it fails, the loop body
LockfreeCAS(t) ==
  LET c == appendCall[t] IN
  /\ c.pc = "cas"
  /\ IF compare_exchange_strong(buffer, c.s)
     THEN /\ buffer' = [buffer EXCEPT !.size = c.ns]
          /\ appendCall' = [appendCall EXCEPT ![t].pc = "copy"]
          /\ reserved' = reserved \cup
               {[id |-> c.id, kind |-> c.kind, s |-> c.s, count |-> c.count]}
     ELSE /\ appendCall' =
               IF ExceedsCapacity(buffer, buffer.size, c.count)
               THEN [appendCall EXCEPT ![t] = Idle]
               ELSE [appendCall EXCEPT ![t].s = buffer.size,
                                       ![t].ns = Wrap(buffer.size + c.count)]
          /\ UNCHANGED <<buffer, reserved>>
  /\ UNCHANGED <<observed, returnedTrue, nAppendCalls, cleared, clearRaced,
                 outOfBounds>>
  /\ UNCHANGED <<commVars, queueVars>>

\* an observer thread calls getSize()
GetSize ==
  /\ observed' = getSize(buffer)
  /\ UNCHANGED <<buffer, appendCall, reserved, returnedTrue, nAppendCalls,
                 cleared, clearRaced, outOfBounds>>
  /\ UNCHANGED <<commVars, queueVars>>

\* a thread calls block()
Block ==
  /\ ~isBlocked(buffer)
  /\ buffer' = block(buffer)
  /\ UNCHANGED <<appendCall, observed, reserved, returnedTrue, nAppendCalls,
                 cleared, clearRaced, outOfBounds>>
  /\ UNCHANGED <<commVars, queueVars>>

\* a thread calls clear()
Clear ==
  /\ ~cleared
  /\ cleared' = TRUE
  /\ buffer' = clear(buffer)
  /\ reserved' = {}
  /\ clearRaced' = (\E t \in Appenders : appendCall[t].pc # "idle")
  /\ UNCHANGED <<appendCall, observed, returnedTrue, nAppendCalls, outOfBounds>>
  /\ UNCHANGED <<commVars, queueVars>>

InitBuffer ==
  /\ buffer = Buffer(BufCapacity)
  /\ appendCall = [t \in Appenders |-> Idle]
  /\ observed = 0
  /\ reserved = {}
  /\ returnedTrue = 0
  /\ nAppendCalls = 0
  /\ cleared = FALSE
  /\ clearRaced = FALSE
  /\ outOfBounds = FALSE

NextBuffer ==
  \/ \E t \in Appenders, count \in 1 .. MaxCount : AppendCall(t, count)
  \/ \E t \in Appenders : AppendFetchAdd(t)
  \/ \E t \in Appenders : AppendFetchSub(t)
  \/ \E t \in Appenders : AppendMemcpy(t)
  \/ \E t \in Appenders, count \in 1 .. MaxCount : LockfreeCall(t, count)
  \/ \E t \in Appenders : LockfreeLoad(t)
  \/ \E t \in Appenders : LockfreeCAS(t)
  \/ GetSize
  \/ Block
  \/ Clear

(***************************************************************************)
(* concurrent/lockfree_queue.hpp: ThreadSafeQueue<T>                       *)
(***************************************************************************)
\* the threads that call the push and pop operations of the queue
QueueThreads == {1, 2, 3}

\* std::numeric_limits<int64_t>::lowest(): the push bit alone
QueueLowest == 0 - 2 ^ (QueueSizeBits - 1)

\* MAX_SIZE: std::numeric_limits<int64_t>::max(), the bits of the length
MAX_SIZE == 2 ^ (QueueSizeBits - 1) - 1

\* two's complement arithmetic of std::atomic<int64_t>
QueueWrap(x) == ((x - QueueLowest) % (2 ^ QueueSizeBits)) + QueueLowest

\* reinterpret_cast<uint64_t&>(v)
AsUnsigned(v) == IF v < 0 THEN v + 2 ^ QueueSizeBits ELSE v

\* ThreadSafeQueue(_capacity): size(0), q empty
ThreadSafeQueue(_capacity) == [capacity |-> _capacity, size |-> 0, q |-> <<>>]

\* canPop() that looks at the push bit only
CanPopIgnoresLength(qu) == qu.size >= 0

\* a signed test in tryPush, in place of the unsigned one
TryPushHasRoomSigned(qu, v) == v < qu.capacity

\* size.load() & MAX_SIZE
QueueGetSize(qu) == IF qu.size < 0 THEN qu.size - QueueLowest ELSE qu.size

\* size.load() >= 0
canPush(qu) == qu.size >= 0

\* size.load() != std::numeric_limits<int64_t>::lowest()
canPop(qu) == qu.size # QueueLowest

\* size.fetch_add(1) and size.fetch_sub(1): the new value of the word
QueueFetchAdd(qu) == QueueWrap(qu.size + 1)

QueueFetchSub(qu) == QueueWrap(qu.size - 1)

\* the loop of waitAndPush admitting one element more than the capacity
WaitAndPushIsFullOffByOne(qu, v) == v > qu.capacity

\* the test of tryPush on the value v that fetch_add returned
TryPushHasRoom(qu, v) == AsUnsigned(v) < qu.capacity

\* the test of the while loop of waitAndPush on the value v of fetch_add
WaitAndPushIsFull(qu, v) == v >= qu.capacity

\* the positions at which q.try_dequeue can take an element: the oldest
\* element of each producer
Dequeueable(qu) ==
  {i \in 1 .. Len(qu.q) : \A j \in 1 .. i - 1 : qu.q[j].producer # qu.q[i].producer}

QueueIdle ==
  [pc |-> "idle", op |-> "none", val |-> 0, v |-> 0,
   startedDisabled |-> FALSE, enabledDuring |-> FALSE]

\* the call that thread t starts now: its value is the number of the call
QueueStart(t, _op, _pc) ==
  [pc |-> _pc, op |-> _op, val |-> queueHist.nCalls + 1, v |-> queue.size,
   startedDisabled |-> ~canPush(queue), enabledDuring |-> FALSE]

QueueMayCall(t) ==
  /\ queueCall[t].pc = "idle"
  /\ queueHist.nCalls < MaxQueueCalls

\* bool tryPush(T const& data), to the test of the value of
\* size.fetch_add(1)
tryPush(t) ==
  /\ QueueMayCall(t)
  /\ queue' = [queue EXCEPT !.size = QueueFetchAdd(queue)]
  /\ queueCall' = [queueCall EXCEPT ![t] =
       QueueStart(t, "tryPush",
                  IF TryPushHasRoom(queue, queue.size) THEN "enqueue" ELSE "rollback")]
  /\ queueHist' = [queueHist EXCEPT !.nCalls = @ + 1]
  /\ UNCHANGED queueObserved
  /\ UNCHANGED <<bufVars, commVars>>

\* waitAndPush that treats a disabled queue like a full one
WaitAndPushNextSpins(qu, v) ==
  IF WaitAndPushIsFull(qu, v) \/ v < 0 THEN "retry" ELSE "enqueue"

\* the value v of size.fetch_add(1) in waitAndPush decides: at or above the
\* capacity the loop body runs, 0 <= v < capacity goes on to enqueue, v < 0
\* (push disabled) goes on to the final fetch_sub
WaitAndPushNext(qu, v) ==
  IF WaitAndPushIsFull(qu, v) THEN "retry"
  ELSE IF v >= 0 THEN "enqueue" ELSE "rollback"

\* bool waitAndPush(T const& data), to the first evaluation of the loop condition
waitAndPush(t) ==
  /\ QueueMayCall(t)
  /\ queue' = [queue EXCEPT !.size = QueueFetchAdd(queue)]
  /\ queueCall' = [queueCall EXCEPT ![t] =
       QueueStart(t, "waitAndPush", WaitAndPushNext(queue, queue.size))]
  /\ queueHist' = [queueHist EXCEPT !.nCalls = @ + 1]
  /\ UNCHANGED queueObserved
  /\ UNCHANGED <<bufVars, commVars>>

\* waitAndPush, loop body: size.fetch_sub(1); _mm_pause()
WaitAndPushPause(t) ==
  /\ queueCall[t].pc = "retry"
  /\ queue' = [queue EXCEPT !.size = QueueFetchSub(queue)]
  /\ queueCall' = [queueCall EXCEPT ![t].pc = "add"]
  /\ UNCHANGED <<queueObserved, queueHist>>
  /\ UNCHANGED <<bufVars, commVars>>

\* waitAndPush, the next evaluation of the loop condition
WaitAndPushAgain(t) ==
  /\ queueCall[t].pc = "add"
  /\ queue' = [queue EXCEPT !.size = QueueFetchAdd(queue)]
  /\ queueCall' = [queueCall EXCEPT ![t].pc = WaitAndPushNext(queue, queue.size),
                                    ![t].v = queue.size]
  /\ UNCHANGED <<queueObserved, queueHist>>
  /\ UNCHANGED <<bufVars, commVars>>

\* tryPush and waitAndPush: q.enqueue(data); return true
PushEnqueue(t) ==
  LET c == queueCall[t] IN
  /\ c.pc = "enqueue"
  /\ queue' = [queue EXCEPT !.q = Append(@, [val |-> c.val, producer |-> t])]
  /\ queueCall' = [queueCall EXCEPT ![t] = QueueIdle]
  /\ queueHist' = [queueHist EXCEPT !.pushed = @ \cup {c.val}]
  /\ UNCHANGED queueObserved
  /\ UNCHANGED <<bufVars, commVars>>

\* tryPush and waitAndPush: size.fetch_sub(1); return false
PushRollback(t) ==
  LET c == queueCall[t] IN
  /\ c.pc = "rollback"
  /\ queue' = [queue EXCEPT !.size = QueueFetchSub(queue)]
  /\ queueCall' = [queueCall EXCEPT ![t] = QueueIdle]
  /\ queueHist' = [queueHist EXCEPT !.failed = @ \cup {c.val}]
  /\ UNCHANGED queueObserved
  /\ UNCHANGED <<bufVars, commVars>>

\* a try_dequeue that hands out an element and leaves it in the queue
TryDequeueKeeps(t, c, _empty) ==
  IF queue.q = <<>>
  THEN /\ queueCall' = [queueCall EXCEPT ![t] = [c EXCEPT !.pc = _empty]]
       /\ UNCHANGED queue
  ELSE \E i \in Dequeueable(queue) :
         /\ UNCHANGED queue
         /\ queueCall' = [queueCall EXCEPT ![t] =
                            [c EXCEPT !.pc = "popsub", !.val = queue.q[i].val]]

\* q.try_dequeue(output.second) by thread t in call c: it takes the element at
\* a dequeueable position and the call goes on to size.fetch_sub(1), or it
\* finds no element and the call goes on at pc _empty
TryDequeue(t, c, _empty) ==
  IF queue.q = <<>>
  THEN /\ queueCall' = [queueCall EXCEPT ![t] = [c EXCEPT !.pc = _empty]]
       /\ UNCHANGED queue
  ELSE \E i \in Dequeueable(queue) :
         /\ queue' = [queue EXCEPT !.q = SubSeq(@, 1, i - 1) \o SubSeq(@, i + 1, Len(@))]
         /\ queueCall' = [queueCall EXCEPT ![t] =
                            [c EXCEPT !.pc = "popsub", !.val = queue.q[i].val]]

\* std::pair<bool, T> tryPop(): q.try_dequeue; a failed dequeue returns failure
tryPop(t) ==
  /\ QueueMayCall(t)
  /\ TryDequeue(t, QueueStart(t, "tryPop", "idle"), "idle")
  /\ queueHist' = [queueHist EXCEPT
       !.nCalls = @ + 1,
       !.popFailed = @ \cup (IF queue.q = <<>>
                             THEN {[op |-> "tryPop", val |-> queueHist.nCalls + 1]}
                             ELSE {})]
  /\ UNCHANGED queueObserved
  /\ UNCHANGED <<bufVars, commVars>>

\* tryPop and waitAndPop after a successful dequeue: size.fetch_sub(1);
\* return output
PopFetchSub(t) ==
  LET c == queueCall[t] IN
  /\ c.pc = "popsub"
  /\ queue' = [queue EXCEPT !.size = QueueFetchSub(queue)]
  /\ queueCall' = [queueCall EXCEPT ![t] = QueueIdle]
  /\ queueHist' = [queueHist EXCEPT
       !.popped = @ \cup {c.val},
       !.poppedTwice = @ \cup ({c.val} \cap queueHist.popped)]
  /\ UNCHANGED queueObserved
  /\ UNCHANGED <<bufVars, commVars>>

\* std::pair<bool, T> waitAndPop(), to its first q.try_dequeue
waitAndPop(t) ==
  /\ QueueMayCall(t)
  /\ TryDequeue(t, QueueStart(t, "waitAndPop", "canPop"), "canPop")
  /\ queueHist' = [queueHist EXCEPT !.nCalls = @ + 1]
  /\ UNCHANGED queueObserved
  /\ UNCHANGED <<bufVars, commVars>>

\* waitAndPop, the loop condition after a failed dequeue: canPop() lets the
\* loop go on; !canPop() ends the call, which returns failure
WaitAndPopCanPop(t) ==
  LET c == queueCall[t] IN
  /\ c.pc = "canPop"
  /\ IF canPop(queue)
     THEN /\ queueCall' = [queueCall EXCEPT ![t].pc = "dequeue"]
          /\ UNCHANGED queueHist
     ELSE /\ queueCall' = [queueCall EXCEPT ![t] = QueueIdle]
          /\ queueHist' = [queueHist EXCEPT
               !.popFailed = @ \cup {[op |-> "waitAndPop", val |-> c.val]}]
  /\ UNCHANGED <<queue, queueObserved>>
  /\ UNCHANGED <<bufVars, commVars>>

\* waitAndPop, loop body: _mm_pause(); output.first = q.try_dequeue(output.second)
WaitAndPopDequeue(t) ==
  /\ queueCall[t].pc = "dequeue"
  /\ TryDequeue(t, queueCall[t], "canPop")
  /\ UNCHANGED <<queueObserved, queueHist>>
  /\ UNCHANGED <<bufVars, commVars>>

\* void disablePush(): size.fetch_or(lowest)
disablePush ==
  /\ queue' = [queue EXCEPT !.size = IF @ >= 0 THEN @ + QueueLowest ELSE @]
  /\ UNCHANGED <<queueCall, queueObserved, queueHist>>
  /\ UNCHANGED <<bufVars, commVars>>

\* void enablePush(): size.fetch_and(MAX_SIZE); the calls in progress have
\* seen an enablePush
enablePush ==
  /\ queue' = [queue EXCEPT !.size = IF @ < 0 THEN @ - QueueLowest ELSE @]
  /\ queueCall' = [t \in QueueThreads |->
                     IF queueCall[t].pc = "idle" THEN queueCall[t]
                     ELSE [queueCall[t] EXCEPT !.enabledDuring = TRUE]]
  /\ UNCHANGED <<queueObserved, queueHist>>
  /\ UNCHANGED <<bufVars, commVars>>

\* an observer thread calls getSize()
QueueObserve ==
  /\ queueObserved' = QueueGetSize(queue)
  /\ UNCHANGED <<queue, queueCall, queueHist>>
  /\ UNCHANGED <<bufVars, commVars>>

InitQueue ==
  /\ queue = ThreadSafeQueue(QueueCapacity)
  /\ queueCall = [t \in QueueThreads |-> QueueIdle]
  /\ queueObserved = 0
  /\ queueHist = [nCalls |-> 0, pushed |-> {}, failed |-> {}, popped |-> {},
                  poppedTwice |-> {}, popFailed |-> {}]

\* the steps of the thread t that is inside a push or pop call
QueueStep(t) ==
  \/ WaitAndPushPause(t)
  \/ WaitAndPushAgain(t)
  \/ PushEnqueue(t)
  \/ PushRollback(t)
  \/ PopFetchSub(t)
  \/ WaitAndPopCanPop(t)
  \/ WaitAndPopDequeue(t)

NextQueue ==
  \/ \E t \in QueueThreads : tryPush(t)
  \/ \E t \in QueueThreads : waitAndPush(t)
  \/ \E t \in QueueThreads : tryPop(t)
  \/ \E t \in QueueThreads : waitAndPop(t)
  \/ \E t \in QueueThreads : QueueStep(t)
  \/ disablePush
  \/ enablePush
  \/ QueueObserve

(***************************************************************************)
(* io/CommunicationLayer.hpp: CommunicationLayer, one instance per rank.   *)
(***************************************************************************)
Ranks == 0 .. NumRanks - 1

Tags == 1 .. NumTags

\* the user threads of a rank: they call addReceiveCallback, sendMessage, flush
Users == {1, 2}

\* the byte counts a sendMessage call passes: a small payload, and one
\* larger than the capacity of a buffer
PayloadCounts == {1, MsgBufCapacity + 1}

\* sendQueue(2 * omp_get_num_threads())
sendQueueCapacity == 2 * omp_get_num_threads

\* recvQueue(2 * comm_size)
recvQueueCapacity == 2 * NumRanks

\* the calls the main thread (user thread 1) of every rank makes, in this
\* order and each of them or not: it registers its callback, sends, registers
\* again and flushes
MainProgram == <<"addReceiveCallback", "sendMessage", "addReceiveCallback", "flush">>

\* the calls of a producer thread (user thread 2)
ProducerProgram == <<"sendMessage">>

\* rank 0 runs a producer thread next to its main thread
Program(r, u) ==
  IF u = 1 THEN MainProgram ELSE IF r = 0 THEN ProducerProgram ELSE <<>>

\* user thread u of rank r is between two calls and goes on with call i of
\* its program, which is op
NextCall(r, u, op, i) ==
  /\ user[r][u].pc = "idle"
  /\ i \in calls[r][u] + 1 .. Len(Program(r, u))
  /\ Program(r, u)[i] = op
  /\ calls' = [calls EXCEPT ![r][u] = i]

\* the value that stands for the payload bytes of user thread u of rank r
PayloadId(r, u) == r * Cardinality(Users) + u

\* the value of a byte read past the end of a buffer's allocation
Junk == -1

\* std::unordered_map / std::map: insert or assign, erase
MapPut(f, k, v) == [x \in DOMAIN f \cup {k} |-> IF x = k THEN v ELSE f[x]]

MapErase(f, k) == [x \in DOMAIN f \ {k} |-> f[x]]

EmptyMap == [x \in {} |-> 0]

\* recvRemaining[tag]: operator[] inserts 0 for a tag that has no entry
MapGetOrInsert(f, k) == IF k \in DOMAIN f THEN f ELSE MapPut(f, k, 0)

SeqRemove(s, i) == SubSeq(s, 1, i - 1) \o SubSeq(s, i + 1, Len(s))

\* ReceivedMessage(data, count, tag, src)
ReceivedMessage(_data, _count, _tag, _src) ==
  [data |-> _data, count |-> _count, tag |-> _tag, src |-> _src]

\* SendQueueElement(_id, _tag, _dst); producer is the thread that pushed it
\* (the queue keeps the order of one producer only)
SendQueueElement(_id, _tag, _dst, _producer) ==
  [bufferId |-> _id, tag |-> _tag, dst |-> _dst, producer |-> _producer]

(***************************************************************************)
(* io/message_buffers.hpp: MessageBuffers<THREAD_SAFE>                     *)
(***************************************************************************)
\* BuffersType(commSize, 8192): one active buffer per destination, the rest free
MessageBuffersOfPool(_numDests, _capacity, _poolSize) ==
  [active |-> [d \in 0 .. _numDests - 1 |-> d + 1],
   pool |-> [i \in 1 .. _poolSize |-> Buffer(_capacity)],
   free |-> (_numDests + 1) .. _poolSize]

MessageBuffers(_numDests, _capacity) ==
  MessageBuffersOfPool(_numDests, _capacity, PoolSize)

getActiveIds(mb) == mb.active

getBackBuffer(mb, id) == mb.pool[id]

\* releaseBuffer(id): the buffer is cleared and goes back to the free-list
releaseBuffer(mb, id) ==
  [mb EXCEPT !.pool[id] = clear(mb.pool[id]), !.free = mb.free \cup {id}]

\* the swap of append: the active buffer of dst is blocked and a free buffer
\* takes its place
SwapOut(mb, dst) ==
  LET old == mb.active[dst]
      new == CHOOSE i \in mb.free : \A j \in mb.free : i <= j
  IN [mb EXCEPT !.pool[old] = block(mb.pool[old]),
                !.active[dst] = new,
                !.free = mb.free \ {new}]

(***************************************************************************)
(* The user threads.                                                       *)
(***************************************************************************)
UserIdle ==
  [pc |-> "idle", tag |-> 0, dst |-> 0, count |-> 0, id |-> 0, buf |-> 0,
   accepting |-> FALSE, ids |-> <<>>, markers |-> 0]

Running(r) == ~crashed[r]


\* void addReceiveCallback(int tag, std::function<...> callbackFunction)
addReceiveCallback(r, u, tag) ==
  /\ Running(r)
  /\ \E i \in 1 .. Len(Program(r, u)) : NextCall(r, u, "addReceiveCallback", i)
  /\ IF tag \in DOMAIN callbackFunctions[r]
     THEN UNCHANGED <<callbackFunctions, recvRemaining, sendAccept>>
     ELSE IF MapGetOrInsert(recvRemaining[r], tag)[tag] = 0
     THEN /\ recvRemaining' =
               [recvRemaining EXCEPT ![r] = MapGetOrInsert(recvRemaining[r], tag)]
          /\ UNCHANGED <<callbackFunctions, sendAccept>>
     ELSE /\ callbackFunctions' =
               [callbackFunctions EXCEPT ![r] = MapPut(callbackFunctions[r], tag, "fn")]
          /\ recvRemaining' =
               [recvRemaining EXCEPT ![r] = MapPut(recvRemaining[r], tag, NumRanks)]
          /\ sendAccept' = [sendAccept EXCEPT ![r] = sendAccept[r] \cup {tag}]
  /\ hist' = [hist EXCEPT !.registerCalled[r] = @ \cup {tag}]
  /\ UNCHANGED <<buffers, sendQueue, recvQueue, sendInProgress, recvInProgress,
                 network, user, commThread, callbackThread, crashed>>
  /\ UNCHANGED <<bufVars, queueVars>>

\* buffers[tag].append(data, count, dst_rank, fullId), its entry: the active
\* buffer of dst is looked up and Buffer::append tests isBlocked()
EnterAppend(mb, c) ==
  IF isBlocked(getBackBuffer(mb, mb.active[c.dst]))
  THEN [c EXCEPT !.pc = "append", !.buf = 0]
  ELSE [c EXCEPT !.pc = "lock", !.buf = mb.active[c.dst]]

\* sendMessage, from its entry to the first call of append; id stands for
\* the bytes of the payload
SendMessageFrom(r, u, tag, dst, count, id) ==
  /\ Running(r)
  /\ hist' = [hist EXCEPT !.sentAfterFlush[r] =
                             @ \cup (IF tag \in hist.flushCalled[r] THEN {tag} ELSE {})]
  /\ IF tag \in sendAccept[r]
     THEN UNCHANGED <<buffers, user>>
     ELSE LET mbs == IF tag \in DOMAIN buffers[r]
                     THEN buffers[r]
                     ELSE MapPut(buffers[r], tag,
                                 MessageBuffers(NumRanks, MsgBufCapacity))
          IN /\ buffers' = [buffers EXCEPT ![r] = mbs]
             /\ user' = [user EXCEPT ![r][u] =
                  EnterAppend(mbs[tag],
                    [UserIdle EXCEPT !.tag = tag, !.dst = dst, !.count = count,
                                     !.id = id,
                                     !.accepting = (tag \in sendAccept[r])])]
  /\ UNCHANGED <<callbackFunctions, sendAccept, recvRemaining, sendQueue,
                 recvQueue, sendInProgress, recvInProgress, network, commThread,
                 callbackThread, crashed>>
  /\ UNCHANGED <<bufVars, queueVars>>

\* sendMessage as the next call of the program of user thread u
sendMessage(r, u, tag, dst, count) ==
  /\ \E i \in 1 .. Len(Program(r, u)) : NextCall(r, u, "sendMessage", i)
  /\ SendMessageFrom(r, u, tag, dst, count, PayloadId(r, u))

\* the value that stands for the bytes of call n of producer thread u
ProducerPayloadId(u, n) == u * (MaxSends + 1) + n

\* sendMessage called by one of several producer threads of r that send in a
\* loop (the omp parallel for of the test), each call with its own bytes
ProducerSend(r, u, tag, dst, count) ==
  /\ user[r][u].pc = "idle"
  /\ calls[r][u] < MaxSends
  /\ calls' = [calls EXCEPT ![r][u] = @ + 1]
  /\ SendMessageFrom(r, u, tag, dst, count, ProducerPayloadId(u, calls[r][u] + 1))

\* Buffer::append inside sendMessage: lock(mutex); s = size.fetch_add(count);
\* when the bytes fit: unlock, memcpy, return true, and sendMessage returns.
\* A call that found the active buffer blocked returned false and calls
\* append again.
SendAppend(r, u) ==
  LET c == user[r][u]
      mb == buffers[r][c.tag]
      b == getBackBuffer(mb, c.buf)
  IN
  /\ Running(r)
  /\ c.pc \in {"lock", "append"}
  /\ c.pc = "lock" => MutexFree(b)
  /\ IF c.pc = "append"
     THEN /\ user' = [user EXCEPT ![r][u] = EnterAppend(mb, c)]
          /\ UNCHANGED <<buffers, hist>>
     ELSE IF ExceedsCapacity(b, b.size, c.count)
     THEN /\ buffers' = [buffers EXCEPT ![r][c.tag].pool[c.buf] =
                           [b EXCEPT !.size = fetch_add(b, c.count), !.mutex = u]]
          /\ user' = [user EXCEPT ![r][u].pc = "rollback"]
          /\ UNCHANGED hist
     ELSE /\ buffers' = [buffers EXCEPT ![r][c.tag].pool[c.buf] =
                           memcpy([b EXCEPT !.size = fetch_add(b, c.count)],
                                  b.size, c.count, c.id)]
          /\ user' = [user EXCEPT ![r][u] = UserIdle]
          /\ hist' = [hist EXCEPT !.appended = @ \cup
                        {[rank |-> r, tag |-> c.tag, dst |-> c.dst, id |-> c.id,
                          count |-> c.count, accepting |-> c.accepting]}]
  /\ UNCHANGED <<callbackFunctions, sendAccept, recvRemaining, sendQueue,
                 recvQueue, sendInProgress, recvInProgress, network, commThread,
                 callbackThread, crashed, calls>>
  /\ UNCHANGED <<bufVars, queueVars>>

\* the record a swap leaves in the history: the pair (tag, dst) and the bytes
\* of the buffer that left the active slot
Swapped(_tag, _dst, b) ==
  [tag |-> _tag, dst |-> _dst, data |-> [i \in 1 .. b.capacity |-> b.data[i]],
   count |-> getSize(b)]

\* Buffer::append inside sendMessage, the bytes did not fit: size.fetch_sub(count),
\* return false; MessageBuffers::append then swaps the buffer out if it is
\* still the active one (the first thread that fails gets its id as fullId)
SendRollback(r, u) ==
  LET c == user[r][u]
      mb == buffers[r][c.tag]
      b == getBackBuffer(mb, c.buf)
      mb1 == [mb EXCEPT !.pool[c.buf] =
                [b EXCEPT !.size = fetch_sub(b, c.count), !.mutex = 0]]
      wins == mb1.active[c.dst] = c.buf /\ mb1.free # {}
  IN
  /\ Running(r)
  /\ c.pc = "rollback"
  /\ IF wins /\ hist.swapsLeft > 0
     THEN /\ buffers' = [buffers EXCEPT ![r][c.tag] = SwapOut(mb1, c.dst)]
          /\ user' = [user EXCEPT ![r][u].pc = "check"]
          /\ hist' = [hist EXCEPT !.swapsLeft = @ - 1,
                                  !.swapped[r] = Append(@, Swapped(c.tag, c.dst,
                                                   getBackBuffer(mb1, c.buf)))]
     ELSE /\ buffers' = [buffers EXCEPT ![r][c.tag] = mb1]
          /\ user' = [user EXCEPT ![r][u] =
                        IF wins THEN [c EXCEPT !.pc = "spin", !.buf = 0]
                        ELSE EnterAppend(mb1, c)]
          /\ UNCHANGED hist
  /\ UNCHANGED <<callbackFunctions, sendAccept, recvRemaining, sendQueue,
                 recvQueue, sendInProgress, recvInProgress, network, commThread,
                 callbackThread, crashed, calls>>
  /\ UNCHANGED <<bufVars, queueVars>>

\* sendMessage: if (fullId != -1) if (!getBackBuffer(fullId).isEmpty())
\* sendQueue.waitAndPush(SendQueueElement(fullId, tag, dst_rank)); usleep; the
\* next call of append.  waitAndPush returns when the queue has room.
SendCheckFull(r, u) ==
  LET c == user[r][u]
      mb == buffers[r][c.tag]
      empty == isEmpty(getBackBuffer(mb, c.buf))
  IN
  /\ Running(r)
  /\ c.pc = "check"
  /\ empty \/ Len(sendQueue[r]) < sendQueueCapacity
  /\ sendQueue' =
       IF empty THEN sendQueue
       ELSE [sendQueue EXCEPT ![r] =
               Append(@, SendQueueElement(c.buf, c.tag, c.dst, u))]
  /\ user' = [user EXCEPT ![r][u] = EnterAppend(mb, c)]
  /\ UNCHANGED <<callbackFunctions, sendAccept, recvRemaining, buffers,
                 recvQueue, sendInProgress, recvInProgress, network, commThread,
                 callbackThread, crashed, calls, hist>>
  /\ UNCHANGED <<bufVars, queueVars>>

\* the record flush leaves in the history when it returns: whether
\* addReceiveCallback had been called for the tag, whether the tag was in
\* sendAccept at the call, and the number of markers the call pushed
FlushRecord(_tag, _registered, _accepting, _markers) ==
  [tag |-> _tag, registered |-> _registered, accepting |-> _accepting,
   markers |-> _markers]

\* void flush(int tag), its entry: the two early returns, getActiveIds()
flush(r, u, tag) ==
  LET inFlight == \E v \in Users : user[r][v].pc # "idle" /\ user[r][v].tag = tag
      called == [hist EXCEPT !.flushCalled[r] = @ \cup {tag},
                             !.sentAfterFlush[r] =
                                @ \cup (IF inFlight THEN {tag} ELSE {})]
  IN
  /\ Running(r)
  /\ \E i \in 1 .. Len(Program(r, u)) : NextCall(r, u, "flush", i)
  /\ IF tag \notin DOMAIN buffers[r] \/ tag \notin sendAccept[r]
     THEN /\ hist' = [called EXCEPT !.flushed[r] =
                        @ \cup {FlushRecord(tag, tag \in hist.registerCalled[r],
                                            tag \in sendAccept[r], 0)}]
          /\ UNCHANGED user
     ELSE /\ hist' = called
          /\ user' = [user EXCEPT ![r][u] =
                        [UserIdle EXCEPT !.pc = "flushData", !.tag = tag,
                                         !.accepting = TRUE,
                                         !.ids = getActiveIds(buffers[r][tag])]]
  /\ UNCHANGED <<callbackFunctions, sendAccept, recvRemaining, buffers, sendQueue,
                 recvQueue, sendInProgress, recvInProgress, network, commThread,
                 callbackThread, crashed>>
  /\ UNCHANGED <<bufVars, queueVars>>

\* flush, loop body for destination i: if ((id != -1) && !isEmpty(id))
\* sendQueue.waitAndPush(SendQueueElement(id, tag, i)), which returns when
\* the queue has room
FlushData(r, u) ==
  LET c == user[r][u]
      id == c.ids[c.dst]
      skip == id = -1 \/ isEmpty(getBackBuffer(buffers[r][c.tag], id))
  IN
  /\ Running(r)
  /\ c.pc = "flushData"
  /\ skip \/ Len(sendQueue[r]) < sendQueueCapacity
  /\ sendQueue' =
       IF skip THEN sendQueue
       ELSE [sendQueue EXCEPT ![r] =
               Append(@, SendQueueElement(id, c.tag, c.dst, u))]
  /\ user' = [user EXCEPT ![r][u].pc = "flushMarker"]
  /\ UNCHANGED <<callbackFunctions, sendAccept, recvRemaining, buffers,
                 recvQueue, sendInProgress, recvInProgress, network, commThread,
                 callbackThread, crashed, calls, hist>>
  /\ UNCHANGED <<bufVars, queueVars>>

\* flush: sendQueue.waitAndPush(SendQueueElement(-1, tag, i)); ++i; after the
\* last destination sendAccept.erase(tag) and return
FlushMarker(r, u) ==
  LET c == user[r][u] IN
  /\ Running(r)
  /\ c.pc = "flushMarker"
  /\ Len(sendQueue[r]) < sendQueueCapacity
  /\ sendQueue' = [sendQueue EXCEPT ![r] =
                     Append(@, SendQueueElement(-1, c.tag, c.dst, u))]
  /\ IF c.dst + 1 < NumRanks
     THEN /\ user' = [user EXCEPT ![r][u].pc = "flushData",
                                  ![r][u].dst = c.dst + 1,
                                  ![r][u].markers = c.markers + 1]
          /\ UNCHANGED <<sendAccept, hist>>
     ELSE /\ user' = [user EXCEPT ![r][u] = UserIdle]
          /\ sendAccept' = [sendAccept EXCEPT ![r] = @ \ {c.tag}]
          /\ hist' = [hist EXCEPT !.flushed[r] =
                        @ \cup {FlushRecord(c.tag, c.tag \in hist.registerCalled[r],
                                            c.accepting, c.markers + 1)}]
  /\ UNCHANGED <<callbackFunctions, recvRemaining, buffers, recvQueue,
                 sendInProgress, recvInProgress, network, commThread,
                 callbackThread, crashed, calls>>
  /\ UNCHANGED <<bufVars, queueVars>>

(***************************************************************************)
(* The communication thread and the callback thread of a rank.             *)
(***************************************************************************)
\* getData() and getSize() of a queued buffer: the count bytes from the start
\* of its allocation
ReadData(b) ==
  [i \in 1 .. getSize(b) |-> IF i <= b.capacity THEN b.data[i] ELSE Junk]

\* the condition of the while loop of commThread
CommLoopCondition(r) ==
  \/ sendAccept[r] # {}
  \/ Len(sendQueue[r]) > 0
  \/ Len(sendInProgress[r]) > 0
  \/ DOMAIN recvRemaining[r] # {}
  \/ Len(recvInProgress[r]) > 0
  \/ Len(recvQueue[r]) > 0

\* the condition of the while loop of callbackThread
CallbackLoopCondition(r) ==
  \/ DOMAIN recvRemaining[r] # {}
  \/ Len(recvInProgress[r]) > 0
  \/ Len(recvQueue[r]) > 0

\* where the communication thread stands in its loop: at the loop test or
\* in finishReceives (1), past finishReceives and not past tryStartReceive
\* (2), past tryStartReceive (3); 0 when it has returned or is inside
\* recvQueue.waitAndPush
CommPosition(pc) ==
  CASE pc = "loop" -> 1
    [] pc = "finishSends" -> 2
    [] pc = "tryStartSend" -> 3
    [] OTHER -> 0

\* the thread can still run, in this iteration, the handler that comes at
\* position n
AtOrBefore(r, n) == CommPosition(commThread[r]) \in 1 .. n

\* recvQueue.waitAndPush can return: the inbound queue has room
RecvQueueHasRoom(r) == Len(recvQueue[r]) < recvQueueCapacity

\* finishReceives, one iteration on a front request that MPI_Test reports
\* finished (recvQueue.waitAndPush returns when the queue has room)
finishReceives(r) ==
  LET front == Head(recvInProgress[r])
      rr == MapGetOrInsert(recvRemaining[r], front.tag)
      remaining == rr[front.tag] - 1
      forward == front.count # 0 \/ remaining = 0
  IN
  /\ Running(r)
  /\ AtOrBefore(r, 1) \/ commThread[r] = "waitAndPush"
  /\ commThread' = [commThread EXCEPT ![r] = "loop"]
  /\ recvInProgress[r] # <<>>
  /\ forward => RecvQueueHasRoom(r)
  /\ recvRemaining' =
       IF front.count # 0 THEN recvRemaining
       ELSE IF remaining = 0
       THEN [recvRemaining EXCEPT ![r] = MapErase(rr, front.tag)]
       ELSE [recvRemaining EXCEPT ![r] = MapPut(rr, front.tag, remaining)]
  /\ recvQueue' =
       IF forward THEN [recvQueue EXCEPT ![r] = Append(@, front)] ELSE recvQueue
  /\ recvInProgress' = [recvInProgress EXCEPT ![r] = Tail(@)]
  /\ UNCHANGED <<callbackFunctions, sendAccept, buffers, sendQueue,
                 sendInProgress, network, user, callbackThread, crashed, calls,
                 hist>>
  /\ UNCHANGED <<bufVars, queueVars>>

\* finishReceives, the front request is finished and is to be forwarded, and
\* the inbound queue is full: the thread is inside recvQueue.waitAndPush and
\* stays there until the callback thread pops a message
FinishReceivesWait(r) ==
  LET front == Head(recvInProgress[r])
      rr == MapGetOrInsert(recvRemaining[r], front.tag)
  IN
  /\ Running(r)
  /\ AtOrBefore(r, 1)
  /\ recvInProgress[r] # <<>>
  /\ front.count # 0 \/ rr[front.tag] - 1 = 0
  /\ ~RecvQueueHasRoom(r)
  /\ commThread' = [commThread EXCEPT ![r] = "waitAndPush"]
  /\ UNCHANGED <<callbackFunctions, sendAccept, recvRemaining, buffers, sendQueue,
                 recvQueue, sendInProgress, recvInProgress, network, user,
                 callbackThread, crashed, calls, hist>>
  /\ UNCHANGED <<bufVars, queueVars>>

\* finishSends, one iteration on a front request that MPI_Test reports finished
finishSends(r) ==
  LET front == Head(sendInProgress[r]) IN
  /\ Running(r)
  /\ AtOrBefore(r, 2)
  /\ commThread' = [commThread EXCEPT ![r] = "finishSends"]
  /\ sendInProgress[r] # <<>>
  /\ buffers' =
       IF front.bufferId # -1
       THEN [buffers EXCEPT ![r][front.tag] = releaseBuffer(@, front.bufferId)]
       ELSE buffers
  /\ sendInProgress' = [sendInProgress EXCEPT ![r] = Tail(@)]
  /\ UNCHANGED <<callbackFunctions, sendAccept, recvRemaining, sendQueue,
                 recvQueue, recvInProgress, network, user, callbackThread,
                 crashed, calls, hist>>
  /\ UNCHANGED <<bufVars, queueVars>>

\* tryStartReceive when MPI_Iprobe reports a message, here the oldest one of
\* src.  A thread that stands at the loop test enters the iteration only if
\* the loop condition holds.
tryStartReceive(r, src) ==
  LET m == Head(network[src][r]) IN
  /\ Running(r)
  /\ AtOrBefore(r, 2)
  /\ commThread[r] = "loop" => CommLoopCondition(r)
  /\ commThread' = [commThread EXCEPT ![r] = "tryStartSend"]
  /\ network[src][r] # <<>>
  /\ network' = [network EXCEPT ![src][r] = Tail(@)]
  /\ recvInProgress' = [recvInProgress EXCEPT ![r] =
                          Append(@, ReceivedMessage(m.data, m.count, m.tag, src))]
  /\ UNCHANGED <<callbackFunctions, sendAccept, recvRemaining, buffers, sendQueue,
                 recvQueue, sendInProgress, user, callbackThread, crashed, calls,
                 hist>>
  /\ UNCHANGED <<bufVars, queueVars>>

\* what tryStartSend hands over, for the history: the markers of each
\* (tag, dst) and the pairs for which data followed a marker
Handed(r, se) ==
  IF se.bufferId = -1
  THEN [hist EXCEPT !.markersHanded[r][<<se.tag, se.dst>>] = @ + 1]
  ELSE IF hist.markersHanded[r][<<se.tag, se.dst>>] > 0
  THEN [hist EXCEPT !.dataAfterMarker[r] = @ \cup {<<se.tag, se.dst>>}]
  ELSE hist

\* tryStartSend when sendQueue.tryPop succeeds with the element at position i,
\* the oldest element of its producer.  Reading more bytes than the buffer
\* holds (getSize() above the capacity) yields bytes from past the allocation,
\* or a fault that ends the process.
tryStartSend(r, i) ==
  LET se == sendQueue[r][i]
      b == getBackBuffer(buffers[r][se.tag], se.bufferId)
      msg == IF se.bufferId = -1
             THEN ReceivedMessage(<<>>, 0, se.tag, r)
             ELSE ReceivedMessage(ReadData(b), getSize(b), se.tag, r)
      overread == se.bufferId # -1 /\ getSize(b) > b.capacity
  IN
  /\ Running(r)
  /\ AtOrBefore(r, 3)
  /\ commThread' = [commThread EXCEPT ![r] = "loop"]
  /\ i \in 1 .. Len(sendQueue[r])
  /\ \A j \in 1 .. i - 1 : sendQueue[r][j].producer # se.producer
  /\ se.dst = r => RecvQueueHasRoom(r)
  /\ sendQueue' = [sendQueue EXCEPT ![r] = SeqRemove(@, i)]
  /\ hist' = Handed(r, se)
  /\ \E fault \in IF overread THEN {TRUE, FALSE} ELSE {FALSE} :
       IF fault
       THEN /\ crashed' = [crashed EXCEPT ![r] = TRUE]
            /\ UNCHANGED <<recvQueue, buffers, network, sendInProgress>>
       ELSE /\ UNCHANGED crashed
            /\ IF se.dst = r
               THEN /\ recvQueue' = [recvQueue EXCEPT ![r] = Append(@, msg)]
                    /\ buffers' =
                         IF se.bufferId # -1
                         THEN [buffers EXCEPT ![r][se.tag] =
                                 releaseBuffer(@, se.bufferId)]
                         ELSE buffers
                    /\ UNCHANGED <<network, sendInProgress>>
               ELSE /\ network' = [network EXCEPT ![r][se.dst] =
                                     Append(@, [data |-> msg.data, count |-> msg.count,
                                                tag |-> msg.tag])]
                    /\ sendInProgress' = [sendInProgress EXCEPT ![r] = Append(@, se)]
                    /\ UNCHANGED <<recvQueue, buffers>>
  /\ UNCHANGED <<callbackFunctions, sendAccept, recvRemaining, recvInProgress,
                 user, callbackThread, calls>>
  /\ UNCHANGED <<bufVars, queueVars>>

\* tryStartSend when sendQueue.tryPop finds the queue empty: the iteration
\* ends and the thread is back at the loop test
CommIterate(r) ==
  /\ Running(r)
  /\ commThread[r] \in {"finishSends", "tryStartSend"}
  /\ sendQueue[r] = <<>>
  /\ commThread' = [commThread EXCEPT ![r] = "loop"]
  /\ UNCHANGED <<callbackFunctions, sendAccept, recvRemaining, buffers, sendQueue,
                 recvQueue, sendInProgress, recvInProgress, network, user,
                 callbackThread, crashed, calls, hist>>
  /\ UNCHANGED <<bufVars, queueVars>>

\* commThread: the while condition is false and the thread returns
CommExit(r) ==
  /\ Running(r)
  /\ commThread[r] = "loop"
  /\ ~CommLoopCondition(r)
  /\ commThread' = [commThread EXCEPT ![r] = "done"]
  /\ UNCHANGED <<callbackFunctions, sendAccept, recvRemaining, buffers, sendQueue,
                 recvQueue, sendInProgress, recvInProgress, network, user,
                 callbackThread, crashed, calls, hist>>
  /\ UNCHANGED <<bufVars, queueVars>>

\* callbackThread, run by callback thread k of rank r: the while condition is
\* false and the thread returns
CallbackExit(r, k) ==
  /\ Running(r)
  /\ k \in DOMAIN callbackThread[r]
  /\ callbackThread[r][k] = "loop"
  /\ ~CallbackLoopCondition(r)
  /\ callbackThread' = [callbackThread EXCEPT ![r][k] = "done"]
  /\ UNCHANGED <<callbackFunctions, sendAccept, recvRemaining, buffers, sendQueue,
                 recvQueue, sendInProgress, recvInProgress, network, user,
                 commThread, crashed, calls, hist>>
  /\ UNCHANGED <<bufVars, queueVars>>

\* callbackThread: the while condition holds (the queue is not empty),
\* waitAndPop returns a message and
\* (callbackFunctions[msg.tag])(msg.data, msg.count, msg.src) is called;
\* operator[] inserts an empty std::function for a tag without callback, and
\* calling it throws std::bad_function_call, which terminates the process
CallbackInvoke(r, k) ==
  LET msg == Head(recvQueue[r]) IN
  /\ Running(r)
  /\ k \in DOMAIN callbackThread[r]
  /\ callbackThread[r][k] \in {"loop", "waitAndPop"}
  /\ callbackThread' = [callbackThread EXCEPT ![r][k] = "loop"]
  /\ recvQueue[r] # <<>>
  /\ recvQueue' = [recvQueue EXCEPT ![r] = Tail(@)]
  /\ IF msg.tag \in DOMAIN callbackFunctions[r] /\ callbackFunctions[r][msg.tag] = "fn"
     THEN /\ hist' = [hist EXCEPT !.delivered[r] = Append(@, msg)]
          /\ UNCHANGED <<callbackFunctions, crashed>>
     ELSE /\ callbackFunctions' = [callbackFunctions EXCEPT ![r] =
                                     MapPut(@, msg.tag, "empty")]
          /\ crashed' = [crashed EXCEPT ![r] = TRUE]
          /\ UNCHANGED hist
  /\ UNCHANGED <<sendAccept, recvRemaining, buffers, sendQueue, sendInProgress,
                 recvInProgress, network, user, commThread, calls>>
  /\ UNCHANGED <<bufVars, queueVars>>

\* callbackThread: the while condition holds and the queue is empty; the
\* thread is inside recvQueue.waitAndPop, which returns with a message or
\* when canPop() is false, that is when the queue is empty and its push is
\* disabled; the layer never calls disablePush
CallbackWait(r, k) ==
  /\ Running(r)
  /\ k \in DOMAIN callbackThread[r]
  /\ callbackThread[r][k] = "loop"
  /\ CallbackLoopCondition(r)
  /\ recvQueue[r] = <<>>
  /\ callbackThread' = [callbackThread EXCEPT ![r][k] = "waitAndPop"]
  /\ UNCHANGED <<callbackFunctions, sendAccept, recvRemaining, buffers, sendQueue,
                 recvQueue, sendInProgress, recvInProgress, network, user,
                 commThread, crashed, calls, hist>>
  /\ UNCHANGED <<bufVars, queueVars>>

\* the slot of user[r] that holds the sendMessage call made by the callback
\* thread of rank r (a rank that runs no producer thread)
CallbackCaller == CHOOSE u \in Users : u # 1

\* callbackThread with a callback that sends, as Tester::lookup_callback does:
\* waitAndPop returns a message and the callback calls
\* commLayer.sendMessage(&u[i], sizeof(int), fromRank, tag), here from its
\* entry to the first call of append; the callback has returned when the
\* call is back at "idle"
CallbackSends(r) ==
  LET msg == Head(recvQueue[r])
      u == CallbackCaller
  IN
  /\ Running(r)
  /\ \A k \in DOMAIN callbackThread[r] : callbackThread[r][k] = "loop"
  /\ user[r][u].pc = "idle"
  /\ recvQueue[r] # <<>>
  /\ msg.tag \in DOMAIN callbackFunctions[r] /\ callbackFunctions[r][msg.tag] = "fn"
  /\ recvQueue' = [recvQueue EXCEPT ![r] = Tail(@)]
  /\ IF msg.tag \in sendAccept[r]
     THEN UNCHANGED <<buffers, user>>
     ELSE LET mbs == IF msg.tag \in DOMAIN buffers[r]
                     THEN buffers[r]
                     ELSE MapPut(buffers[r], msg.tag,
                                 MessageBuffers(NumRanks, MsgBufCapacity))
          IN /\ buffers' = [buffers EXCEPT ![r] = mbs]
             /\ user' = [user EXCEPT ![r][u] =
                  EnterAppend(mbs[msg.tag],
                    [UserIdle EXCEPT !.tag = msg.tag, !.dst = msg.src,
                                     !.count = msg.count, !.id = PayloadId(r, u)])]
  /\ UNCHANGED <<callbackFunctions, sendAccept, recvRemaining, sendQueue,
                 sendInProgress, recvInProgress, network, commThread,
                 callbackThread, crashed, calls, hist>>
  /\ UNCHANGED <<bufVars, queueVars>>

\* the communication thread of rank src hands a buffer of one request to the
\* transport for rank r (tryStartSend of the peer: MPI_Isend)
RemoteSend(src, r, tag) ==
  /\ src # r
  /\ hist.nRemote < MaxRemote
  /\ network' = [network EXCEPT ![src][r] =
                   Append(@, [data |-> <<PayloadId(src, 1)>>, count |-> 1,
                              tag |-> tag])]
  /\ hist' = [hist EXCEPT !.nRemote = @ + 1]
  /\ UNCHANGED <<callbackFunctions, sendAccept, recvRemaining, buffers, sendQueue,
                 recvQueue, sendInProgress, recvInProgress, user, commThread,
                 callbackThread, crashed, calls>>
  /\ UNCHANGED <<bufVars, queueVars>>

\* the state after the constructor of every rank
InitComm ==
  /\ callbackFunctions = [r \in Ranks |-> EmptyMap]
  /\ sendAccept = [r \in Ranks |-> {}]
  /\ recvRemaining = [r \in Ranks |-> EmptyMap]
  /\ buffers = [r \in Ranks |-> EmptyMap]
  /\ sendQueue = [r \in Ranks |-> <<>>]
  /\ recvQueue = [r \in Ranks |-> <<>>]
  /\ sendInProgress = [r \in Ranks |-> <<>>]
  /\ recvInProgress = [r \in Ranks |-> <<>>]
  /\ network = [s \in Ranks |-> [d \in Ranks |-> <<>>]]
  /\ user = [r \in Ranks |-> [u \in Users |-> UserIdle]]
  /\ commThread = [r \in Ranks |-> "loop"]
  /\ callbackThread = [r \in Ranks |-> <<"loop">>]
  /\ crashed = [r \in Ranks |-> FALSE]
  /\ calls = [r \in Ranks |-> [u \in Users |-> 0]]
  /\ hist = [appended |-> {},
             delivered |-> [r \in Ranks |-> <<>>],
             registerCalled |-> [r \in Ranks |-> {}],
             flushCalled |-> [r \in Ranks |-> {}],
             sentAfterFlush |-> [r \in Ranks |-> {}],
             flushed |-> [r \in Ranks |-> {}],
             markersHanded |-> [r \in Ranks |-> [p \in Tags \X Ranks |-> 0]],
             dataAfterMarker |-> [r \in Ranks |-> {}],
             swapped |-> [x \in Ranks |-> <<>>],
             swapsLeft |-> MaxSwaps,
             nRemote |-> 0,
             nRemoteEmpty |-> 0]

\* the rank whose threads are followed when callbacks send
Receiver == NumRanks - 1

\* a state in the middle of a run: Receiver has sent one byte under the tag,
\* then registered its callback (the registration that takes effect), and
\* its main thread is about to call flush; the other rank is a peer that
\* sends requests; Receiver runs n callback threads
InitRegistered(n) ==
  LET r == Receiver
      tag == CHOOSE t \in Tags : TRUE
      mb == MessageBuffers(NumRanks, MsgBufCapacity)
      b == Buffer(MsgBufCapacity)
  IN
  /\ callbackFunctions = [x \in Ranks |-> IF x = r THEN MapPut(EmptyMap, tag, "fn")
                                         ELSE EmptyMap]
  /\ sendAccept = [x \in Ranks |-> IF x = r THEN {tag} ELSE {}]
  /\ recvRemaining = [x \in Ranks |-> IF x = r THEN MapPut(EmptyMap, tag, NumRanks)
                                     ELSE EmptyMap]
  /\ \E dst \in Ranks :
       buffers = [x \in Ranks |->
                   IF x = r
                   THEN MapPut(EmptyMap, tag,
                          [mb EXCEPT !.pool[mb.active[dst]] =
                             memcpy([b EXCEPT !.size = fetch_add(b, 1)], 0, 1,
                                    PayloadId(r, 1))])
                   ELSE EmptyMap]
  /\ sendQueue = [x \in Ranks |-> <<>>]
  /\ recvQueue = [x \in Ranks |-> <<>>]
  /\ sendInProgress = [x \in Ranks |-> <<>>]
  /\ recvInProgress = [x \in Ranks |-> <<>>]
  /\ network = [s \in Ranks |-> [d \in Ranks |-> <<>>]]
  /\ user = [x \in Ranks |-> [u \in Users |-> UserIdle]]
  /\ commThread = [x \in Ranks |-> "loop"]
  /\ callbackThread = [x \in Ranks |-> [k \in 1 .. (IF x = r THEN n ELSE 1) |-> "loop"]]
  /\ crashed = [x \in Ranks |-> FALSE]
  /\ calls = [x \in Ranks |-> [u \in Users |-> IF x = r /\ u = 1 THEN 3 ELSE 0]]
  /\ hist = [appended |-> {},
             delivered |-> [x \in Ranks |-> <<>>],
             registerCalled |-> [x \in Ranks |-> IF x = r THEN {tag} ELSE {}],
             flushCalled |-> [x \in Ranks |-> {}],
             sentAfterFlush |-> [x \in Ranks |-> {}],
             flushed |-> [x \in Ranks |-> {}],
             markersHanded |-> [x \in Ranks |-> [p \in Tags \X Ranks |-> 0]],
             dataAfterMarker |-> [x \in Ranks |-> {}],
             swapped |-> [x \in Ranks |-> <<>>],
             swapsLeft |-> MaxSwaps,
             nRemote |-> 0,
             nRemoteEmpty |-> 0]

\* the mid-run state with one callback thread
InitCallbackSends == InitBuffer /\ InitRegistered(1) /\ InitQueue

\* the mid-run state with several callback threads
InitCallbackThreads == InitBuffer /\ InitRegistered(NumCallbackThreads) /\ InitQueue

\* the communication thread of src hands a message of zero bytes to the
\* transport for rank r: the end marker of its flush, or a buffer that was
\* swapped out at size 0
RemoteSendEmpty(src, r, tag) ==
  /\ src # r
  /\ hist.nRemoteEmpty < MaxRemoteEmpty
  /\ network' = [network EXCEPT ![src][r] =
                   Append(@, [data |-> <<>>, count |-> 0, tag |-> tag])]
  /\ hist' = [hist EXCEPT !.nRemoteEmpty = @ + 1]
  /\ UNCHANGED <<callbackFunctions, sendAccept, recvRemaining, buffers, sendQueue,
                 recvQueue, sendInProgress, recvInProgress, user, commThread,
                 callbackThread, crashed, calls>>
  /\ UNCHANGED <<bufVars, queueVars>>

\* a step of the main thread of r inside flush or into it
MainStep(r) ==
  \/ \E tag \in Tags : flush(r, 1, tag)
  \/ FlushData(r, 1)
  \/ FlushMarker(r, 1)

\* a step of the communication thread of r
CommStep(r) ==
  \/ finishReceives(r)
  \/ finishSends(r)
  \/ \E src \in Ranks : tryStartReceive(r, src)
  \/ \E i \in 1 .. sendQueueCapacity : tryStartSend(r, i)
  \/ CommIterate(r)
  \/ CommExit(r)

\* a step of callback thread k of r
CallbackStep(r, k) ==
  \/ CallbackWait(r, k)
  \/ CallbackInvoke(r, k)
  \/ CallbackExit(r, k)

\* the threads of Receiver with several callback threads, and the peer
NextCallbackThreads ==
  \/ \E src \in Ranks, tag \in Tags : RemoteSendEmpty(src, Receiver, tag)
  \/ MainStep(Receiver)
  \/ CommStep(Receiver)
  \/ \E k \in 1 .. NumCallbackThreads : CallbackStep(Receiver, k)

\* the rank whose producer threads send
Sender == 0

\* a state in the middle of a run: Receiver has its callback registered, and
\* Sender, which registered nothing and whose MessageBuffers of the tag own
\* ProducerPoolSize buffers, is about to send from several threads
InitProducers ==
  LET r == Receiver
      tag == CHOOSE t \in Tags : TRUE
  IN
  /\ InitBuffer /\ InitQueue
  /\ callbackFunctions = [x \in Ranks |-> IF x = r THEN MapPut(EmptyMap, tag, "fn")
                                         ELSE EmptyMap]
  /\ sendAccept = [x \in Ranks |-> IF x = r THEN {tag} ELSE {}]
  /\ recvRemaining = [x \in Ranks |-> IF x = r THEN MapPut(EmptyMap, tag, NumRanks)
                                     ELSE EmptyMap]
  /\ buffers = [x \in Ranks |->
                 IF x = Sender
                 THEN MapPut(EmptyMap, tag,
                        MessageBuffersOfPool(NumRanks, MsgBufCapacity,
                                             ProducerPoolSize))
                 ELSE EmptyMap]
  /\ sendQueue = [x \in Ranks |-> <<>>]
  /\ recvQueue = [x \in Ranks |-> <<>>]
  /\ sendInProgress = [x \in Ranks |-> <<>>]
  /\ recvInProgress = [x \in Ranks |-> <<>>]
  /\ network = [s \in Ranks |-> [d \in Ranks |-> <<>>]]
  /\ user = [x \in Ranks |-> [u \in Users |-> UserIdle]]
  /\ commThread = [x \in Ranks |-> "loop"]
  /\ callbackThread = [x \in Ranks |-> <<"loop">>]
  /\ crashed = [x \in Ranks |-> FALSE]
  /\ calls = [x \in Ranks |-> [u \in Users |-> 0]]
  /\ hist = [appended |-> {},
             delivered |-> [x \in Ranks |-> <<>>],
             registerCalled |-> [x \in Ranks |-> IF x = r THEN {tag} ELSE {}],
             flushCalled |-> [x \in Ranks |-> {}],
             sentAfterFlush |-> [x \in Ranks |-> {}],
             flushed |-> [x \in Ranks |-> {}],
             markersHanded |-> [x \in Ranks |-> [p \in Tags \X Ranks |-> 0]],
             dataAfterMarker |-> [x \in Ranks |-> {}],
             swapped |-> [x \in Ranks |-> <<>>],
             swapsLeft |-> MaxProducerSwaps,
             nRemote |-> 0,
             nRemoteEmpty |-> 0]

\* the producer threads and the communication thread of Sender, the
\* communication thread and the callback thread of Receiver
NextProducers ==
  \/ \E u \in Users, tag \in Tags : ProducerSend(Sender, u, tag, Receiver, 1)
  \/ \E u \in Users : SendAppend(Sender, u)
  \/ \E u \in Users : SendRollback(Sender, u)
  \/ \E u \in Users : SendCheckFull(Sender, u)
  \/ finishSends(Sender)
  \/ \E i \in 1 .. sendQueueCapacity : tryStartSend(Sender, i)
  \/ \E r \in {Sender, Receiver} : CommIterate(r)
  \/ \E src \in Ranks : tryStartReceive(Receiver, src)
  \/ finishReceives(Receiver)
  \/ CallbackInvoke(Receiver, 1)

\* the tags of a rank that uses two
TwoTags == 1 .. NumTags + 1

\* the history at the start of a mid-run state over the tags _tags, in which
\* rank r has called addReceiveCallback for them
HistAt(_tags, r, _swaps) ==
  [appended |-> {},
   delivered |-> [x \in Ranks |-> <<>>],
   registerCalled |-> [x \in Ranks |-> IF x = r THEN _tags ELSE {}],
   flushCalled |-> [x \in Ranks |-> {}],
   sentAfterFlush |-> [x \in Ranks |-> {}],
   flushed |-> [x \in Ranks |-> {}],
   markersHanded |-> [x \in Ranks |-> [p \in _tags \X Ranks |-> 0]],
   dataAfterMarker |-> [x \in Ranks |-> {}],
   swapped |-> [x \in Ranks |-> <<>>],
   swapsLeft |-> _swaps,
   nRemote |-> 0,
   nRemoteEmpty |-> 0]

\* a mid-run state with the given maps of every rank, calls made and
\* history; the queues and the transport are empty, every thread is between
\* two calls or at its loop test
InitCommAt(cf, sa, rr, bf, cl, h) ==
  /\ callbackFunctions = cf
  /\ sendAccept = sa
  /\ recvRemaining = rr
  /\ buffers = bf
  /\ sendQueue = [x \in Ranks |-> <<>>]
  /\ recvQueue = [x \in Ranks |-> <<>>]
  /\ sendInProgress = [x \in Ranks |-> <<>>]
  /\ recvInProgress = [x \in Ranks |-> <<>>]
  /\ network = [s \in Ranks |-> [d \in Ranks |-> <<>>]]
  /\ user = [x \in Ranks |-> [u \in Users |-> UserIdle]]
  /\ commThread = [x \in Ranks |-> "loop"]
  /\ callbackThread = [x \in Ranks |-> <<"loop">>]
  /\ crashed = [x \in Ranks |-> FALSE]
  /\ calls = cl
  /\ hist = h

\* MessageBuffers that hold one byte of the main thread of r for dst
OneByteFor(r, dst) ==
  LET mb == MessageBuffers(NumRanks, MsgBufCapacity)
      b == Buffer(MsgBufCapacity)
  IN [mb EXCEPT !.pool[mb.active[dst]] =
        memcpy([b EXCEPT !.size = fetch_add(b, 1)], 0, 1, PayloadId(r, 1))]

\* a state in the middle of a run with two tags: Receiver has sent one byte
\* under each tag, then registered a callback for each (registrations that
\* took effect); its main thread is about to call flush and a second user
\* thread sends
InitTwoTags ==
  LET r == Receiver IN
  /\ InitBuffer /\ InitQueue
  /\ \E dst \in Ranks :
       InitCommAt(
         [x \in Ranks |-> IF x = r THEN [t \in TwoTags |-> "fn"] ELSE EmptyMap],
         [x \in Ranks |-> IF x = r THEN TwoTags ELSE {}],
         [x \in Ranks |-> IF x = r THEN [t \in TwoTags |-> NumRanks] ELSE EmptyMap],
         [x \in Ranks |-> IF x = r THEN [t \in TwoTags |-> OneByteFor(r, dst)]
                                   ELSE EmptyMap],
         [x \in Ranks |-> [u \in Users |-> IF x = r /\ u = 1 THEN 3 ELSE 0]],
         HistAt(TwoTags, r, MaxSwaps))

\* the threads of Receiver with two tags: its main thread flushes one of
\* them, a second user thread sends under both
NextTwoTags ==
  \/ \E tag \in TwoTags : flush(Receiver, 1, tag)
  \/ FlushData(Receiver, 1)
  \/ FlushMarker(Receiver, 1)
  \/ \E tag \in TwoTags, dst \in Ranks :
       ProducerSend(Receiver, CallbackCaller, tag, dst, 1)
  \/ SendAppend(Receiver, CallbackCaller)
  \/ SendRollback(Receiver, CallbackCaller)
  \/ SendCheckFull(Receiver, CallbackCaller)
  \/ finishSends(Receiver)
  \/ \E i \in 1 .. sendQueueCapacity : tryStartSend(Receiver, i)
  \/ CommIterate(Receiver)
  \/ CallbackInvoke(Receiver, 1)

\* the threads of Receiver when its callback sends, and the peer
NextCallbackSends ==
  \/ \E src \in Ranks, tag \in Tags : RemoteSend(src, Receiver, tag)
  \/ \E tag \in Tags : flush(Receiver, 1, tag)
  \/ FlushData(Receiver, 1)
  \/ FlushMarker(Receiver, 1)
  \/ finishReceives(Receiver)
  \/ FinishReceivesWait(Receiver)
  \/ finishSends(Receiver)
  \/ \E src \in Ranks : tryStartReceive(Receiver, src)
  \/ \E i \in 1 .. sendQueueCapacity : tryStartSend(Receiver, i)
  \/ CommIterate(Receiver)
  \/ CallbackSends(Receiver)
  \/ SendAppend(Receiver, CallbackCaller)
  \/ SendRollback(Receiver, CallbackCaller)
  \/ SendCheckFull(Receiver, CallbackCaller)

Next ==
  \/ \E r \in Ranks, u \in Users, tag \in Tags : addReceiveCallback(r, u, tag)
  \/ \E r \in Ranks, u \in Users, tag \in Tags, dst \in Ranks,
        count \in PayloadCounts : sendMessage(r, u, tag, dst, count)
  \/ \E r \in Ranks, u \in Users : SendAppend(r, u)
  \/ \E r \in Ranks, u \in Users : SendRollback(r, u)
  \/ \E r \in Ranks, u \in Users : SendCheckFull(r, u)
  \/ \E r \in Ranks, u \in Users, tag \in Tags : flush(r, u, tag)
  \/ \E r \in Ranks, u \in Users : FlushData(r, u)
  \/ \E r \in Ranks, u \in Users : FlushMarker(r, u)
  \/ \E r \in Ranks : finishReceives(r)
  \/ \E r \in Ranks : finishSends(r)
  \/ \E r \in Ranks, src \in Ranks : tryStartReceive(r, src)
  \/ \E r \in Ranks, i \in 1 .. sendQueueCapacity : tryStartSend(r, i)
  \/ \E r \in Ranks : CommIterate(r)
  \/ \E r \in Ranks : CommExit(r)
  \/ \E r \in Ranks : \E k \in DOMAIN callbackThread[r] : CallbackExit(r, k)
  \/ \E r \in Ranks : \E k \in DOMAIN callbackThread[r] : CallbackInvoke(r, k)

Init == InitBuffer /\ InitComm /\ InitQueue

\* the Buffer under concurrent append, append_lockfree, getSize, block and clear
SpecBuffer == Init /\ [][NextBuffer]_vars

\* the communication layers of all ranks, their threads and the transport
Spec == Init /\ [][Next]_vars

\* one rank whose callback sends, from the state in which its callback is
\* registered
SpecCallbackSends ==
  InitCallbackSends /\ [][NextCallbackSends]_vars

\* one rank with several callback threads, from the state in which its
\* callback is registered; every thread that can take a step takes one
FairSpecCallbackThreads ==
  /\ InitCallbackThreads
  /\ [][NextCallbackThreads]_vars
  /\ WF_vars(MainStep(Receiver))
  /\ WF_vars(CommStep(Receiver))
  /\ \A k \in 1 .. NumCallbackThreads : WF_vars(CallbackStep(Receiver, k))

\* two producer threads of one rank that send to one destination under one
\* tag, and the way of their buffers to the callback of the destination
SpecProducers == InitProducers /\ [][NextProducers]_vars

\* one rank that uses two tags, flushes one and goes on sending
SpecTwoTags == InitTwoTags /\ [][NextTwoTags]_vars

\* the ThreadSafeQueue under concurrent pushes, pops, disablePush, enablePush
SpecQueue == Init /\ [][NextQueue]_vars

\* the queue and its callers without the observer, with threads that keep
\* running: a thread inside a call takes its next step
NextQueueCallers ==
  \/ \E t \in QueueThreads : tryPush(t)
  \/ \E t \in QueueThreads : waitAndPush(t)
  \/ \E t \in QueueThreads : tryPop(t)
  \/ \E t \in QueueThreads : waitAndPop(t)
  \/ \E t \in QueueThreads : QueueStep(t)
  \/ disablePush
  \/ enablePush

FairSpecQueue ==
  Init /\ [][NextQueueCallers]_vars /\ \A t \in QueueThreads : WF_vars(QueueStep(t))

(***************************************************************************)
(* Properties of the Buffer, checked under SpecBuffer.                     *)
(***************************************************************************)
AllAppendsReturned == \A t \in Appenders : appendCall[t].pc = "idle"

\* the byte positions a reservation e owns: [e.s, e.s + e.count)
Range(e) == (e.s + 1) .. (e.s + e.count)

RECURSIVE SumCounts(_)
SumCounts(S) ==
  IF S = {} THEN 0
  ELSE LET e == CHOOSE x \in S : TRUE IN e.count + SumCounts(S \ {e})

\* C8: every value getSize() returns is between 0 and capacity, under any
\* interleaving of the mutex append with the observer, also while an append
\* that does not fit is being rejected.
C8_ObservedSizeWithinCapacity ==
  /\ 0 <= observed
  /\ observed <= buffer.capacity

\* C9: for the appends (append and append_lockfree) made since the last
\* clear(): every successful one got an offset s with s + n <= capacity, it
\* wrote only into [s, s+n), the ranges are pairwise disjoint, and once all
\* calls have returned size is the sum of n over the successful appends and
\* every range holds the bytes of its append.
C9_AppendRangesDisjoint ==
  ~clearRaced =>
    /\ \A e \in reserved : e.s + e.count <= buffer.capacity
    /\ \A e1, e2 \in reserved : e1 # e2 => Range(e1) \cap Range(e2) = {}
    /\ \A e \in reserved : \A i \in 1 .. buffer.capacity :
         buffer.data[i] = e.id => i \in Range(e)
    /\ ~outOfBounds
    /\ AllAppendsReturned =>
         /\ buffer.size = SumCounts(reserved)
         /\ \A e \in reserved : \A i \in Range(e) : buffer.data[i] = e.id

\* C9, its case: an append and an append_lockfree both succeeded, a third call
\* was rejected, and all calls have returned
C9_Witness ==
  /\ ~cleared
  /\ AllAppendsReturned
  /\ nAppendCalls = MaxAppendCalls
  /\ ~isBlocked(buffer)
  /\ \E e1, e2 \in reserved : e1.kind = "append" /\ e2.kind = "lockfree"
  /\ Cardinality(reserved) < nAppendCalls

\* C10: from block() to the next clear(), size does not change and no append
\* returns true, whatever append calls were in flight when block() ran.
C10_BlockedBufferIsFrozen ==
  [][(isBlocked(buffer) /\ isBlocked(buffer'))
       => (buffer'.size = buffer.size /\ returnedTrue' = returnedTrue)]_vars

\* C11: in every state an observer can see, every byte position below the
\* size getSize() returns has been written by the append that reserved it: no
\* state shows size advanced by an append whose memcpy has not completed.
C11_BytesBelowSizeWritten ==
  ~clearRaced =>
    \A e \in reserved : \A i \in Range(e) :
      i <= getSize(buffer) => buffer.data[i] = e.id

(***************************************************************************)
(* Properties of the ThreadSafeQueue, checked under SpecQueue.             *)
(***************************************************************************)
AllQueueCallsReturned == \A t \in QueueThreads : queueCall[t].pc = "idle"

PushOps == {"tryPush", "waitAndPush"}

\* the values that a pop has dequeued and not yet returned
BeingPopped == {queueCall[t].val : t \in {u \in QueueThreads : queueCall[u].pc = "popsub"}}

\* the values stored in the underlying queue
Stored == {queue.q[i].val : i \in 1 .. Len(queue.q)}

\* thread t is in a call whose first access to the queue came while push
\* was disabled, and enablePush has not been called since
InDisabledPhase(t) ==
  /\ queueCall[t].pc # "idle"
  /\ queueCall[t].startedDisabled
  /\ ~queueCall[t].enabledDuring

\* C12: the length an observer reads with getSize() is never greater than
\* the capacity, under any interleaving of the pushes, pops, disablePush and
\* enablePush.
C12_ObservedLengthWithinCapacity == queueObserved <= queue.capacity

\* C13: the number of elements stored in the underlying queue never exceeds
\* the capacity, under any interleaving of tryPush, waitAndPush, tryPop and
\* waitAndPop.
C13_StoredWithinCapacity == Len(queue.q) <= queue.capacity

\* C13, its case: the queue is full, push is enabled and a push was rejected
C13_Witness ==
  /\ Len(queue.q) = queue.capacity
  /\ canPush(queue)
  /\ queueHist.failed # {}
  /\ AllQueueCallsReturned

\* C14: between disablePush() and the next enablePush(), a tryPush or
\* waitAndPush call that starts goes straight to its failure return and adds
\* no element, a pop on a queue that holds an element takes one, and a
\* pop returns failure only when the queue holds no element.
C14_DisabledPushFailsPopsDrain ==
  /\ [](\A t \in QueueThreads :
          (InDisabledPhase(t) /\ queueCall[t].op \in PushOps)
            => queueCall[t].pc = "rollback")
  /\ [][\A t \in QueueThreads :
          /\ (PushRollback(t) /\ InDisabledPhase(t)) => queue'.q = queue.q
          /\ (~canPush(queue) /\ queue.q # <<>> /\ (tryPop(t) \/ waitAndPop(t)))
               => /\ queueCall'[t].pc = "popsub"
                  /\ queueCall'[t].val \in Stored
          /\ (/\ ~canPush(queue)
              /\ tryPop(t) \/ WaitAndPopCanPop(t)
              /\ queueCall'[t].pc = "idle")
               => queue.q = <<>>]_vars

\* C14, its case: push is disabled, a push that started since is on its
\* failure return, and a pop that started since has taken a stored element
C14_Witness ==
  /\ ~canPush(queue)
  /\ \E t, u \in QueueThreads :
       /\ InDisabledPhase(t) /\ queueCall[t].op \in PushOps
       /\ InDisabledPhase(u) /\ queueCall[u].pc = "popsub"

\* C15: waitAndPop returns failure only in a state where push is disabled,
\* the queue holds no element, no successful push is in flight and every
\* successfully pushed element has been taken by a pop.
C15_WaitAndPopFailsOnlyDrained ==
  [][\A t \in QueueThreads :
       (WaitAndPopCanPop(t) /\ queueCall'[t].pc = "idle")
         => /\ ~canPush(queue)
            /\ queue.q = <<>>
            /\ \A u \in QueueThreads : queueCall[u].pc # "enqueue"
            /\ queueHist.pushed \subseteq queueHist.popped \cup BeingPopped]_vars

\* C15, its case: a waitAndPop has returned failure after elements had been
\* pushed and popped
C15_Witness ==
  /\ \E e \in queueHist.popFailed : e.op = "waitAndPop"
  /\ queueHist.popped # {}

\* C16: every value a pop returned was passed to a push that returned
\* success, no value is returned by two pops, the value of a push that
\* returned failure is never stored or popped, and every successfully pushed
\* value is stored, being popped or popped.
C16_NoLossNoDuplication ==
  /\ queueHist.popped \cup BeingPopped \subseteq queueHist.pushed
  /\ queueHist.poppedTwice = {}
  /\ queueHist.popped \cap BeingPopped = {}
  /\ queueHist.popped \cap Stored = {}
  /\ queueHist.failed \cap (Stored \cup BeingPopped \cup queueHist.popped) = {}
  /\ queueHist.pushed = Stored \cup BeingPopped \cup queueHist.popped

\* C16, its case: a push was rejected, another value was pushed and popped
C16_Witness ==
  /\ queueHist.failed # {}
  /\ queueHist.popped # {}
  /\ AllQueueCallsReturned

\* thread t is in the loop of waitAndPush
Spinning(t) == queueCall[t].op = "waitAndPush" /\ queueCall[t].pc \in {"retry", "add"}

\* C17: a waitAndPush call that is in its loop while push is disabled leaves
\* the loop unless enablePush() is called, with no pop needed; a waitAndPush
\* whose fetch_add saw push disabled is on its failure return; and once
\* all calls have returned every reservation is rolled back: the length is
\* the number of stored elements.
C17_WaitAndPushEndsWhenDisabled ==
  /\ [](AllQueueCallsReturned => QueueGetSize(queue) = Len(queue.q))
  /\ [](\A t \in QueueThreads :
          (queueCall[t].op = "waitAndPush" /\ queueCall[t].pc # "idle" /\ queueCall[t].v < 0)
            => queueCall[t].pc = "rollback")
  /\ \A t \in QueueThreads :
       (Spinning(t) /\ ~canPush(queue)) ~> (~Spinning(t) \/ canPush(queue))

\* C17, its case: a producer spins in waitAndPush on a full queue and push
\* is disabled
C17_Witness ==
  /\ ~canPush(queue)
  /\ Len(queue.q) = queue.capacity
  /\ \E t \in QueueThreads : Spinning(t)

(***************************************************************************)
(* Properties of the communication layer, checked under Spec.              *)
(***************************************************************************)
\* no call is in progress and nothing is queued, posted or in transit
Quiescent ==
  /\ \A r \in Ranks, u \in Users : user[r][u].pc = "idle"
  /\ \A r \in Ranks :
       /\ sendQueue[r] = <<>>
       /\ sendInProgress[r] = <<>>
       /\ recvInProgress[r] = <<>>
       /\ recvQueue[r] = <<>>
  /\ \A s, d \in Ranks : network[s][d] = <<>>

\* flush(t) has returned on rank s, called after addReceiveCallback(t, fn)
FlushedAfterRegistration(s, t) ==
  \E e \in hist.flushed[s] : e.tag = t /\ e.registered

\* the bytes sendMessage has committed to a buffer on rank s for (t, r)
AppendedBytes(s, t, r) ==
  SumCounts({e \in hist.appended : e.rank = s /\ e.tag = t /\ e.dst = r})

\* the bytes of the first n payloads handed to the callback of rank r that
\* carry tag t and source s
RECURSIVE DeliveredBytes(_, _, _, _)
DeliveredBytes(r, s, t, n) ==
  IF n = 0 THEN 0
  ELSE LET msg == hist.delivered[r][n]
       IN (IF msg.src = s /\ msg.tag = t THEN msg.count ELSE 0)
            + DeliveredBytes(r, s, t, n - 1)

\* C1: once the system is quiescent after flush(t) on rank s (no sendMessage
\* on t was issued or still running at or after the flush), the callback of
\* every rank r that registered one for t has received from s exactly as
\* many bytes as sendMessage committed on s for (t, r), and no byte that
\* was not sent.
C1_BytesConserved ==
  \A s \in Ranks, t \in Tags :
    (Quiescent /\ FlushedAfterRegistration(s, t) /\ t \notin hist.sentAfterFlush[s])
      => \A r \in Ranks :
           t \in hist.registerCalled[r] =>
             /\ DeliveredBytes(r, s, t, Len(hist.delivered[r])) = AppendedBytes(s, t, r)
             /\ \A i \in 1 .. Len(hist.delivered[r]) :
                  \A k \in DOMAIN hist.delivered[r][i].data :
                    hist.delivered[r][i].data[k] # Junk

\* C2: when every rank has registered a callback for every tag and flushed
\* it, every user thread has made its last call, and nothing is queued,
\* posted or in transit any more, the termination predicate holds on every
\* rank (no step changes the six collections from such a state, so the
\* communication thread exits only if the predicate holds there).
C2_QuiescentMeansTerminated ==
  (/\ Quiescent
   /\ \A r \in Ranks :
        /\ ~crashed[r]
        /\ \A u \in Users : calls[r][u] = Len(Program(r, u))
        /\ \A t \in Tags : FlushedAfterRegistration(r, t))
    => \A r \in Ranks : ~CommLoopCondition(r)

\* C3: when flush(tag) was called on a rank after all its sendMessage(tag)
\* calls had returned, then by the time the system is quiescent exactly one
\* end-of-stream marker has been handed over for every (tag, dst), and no
\* data buffer of (tag, dst) was handed over after a marker.
C3_OneMarkerAndLast ==
  \A r \in Ranks, t \in Tags :
    (Quiescent /\ FlushedAfterRegistration(r, t) /\ t \notin hist.sentAfterFlush[r])
      => \A dst \in Ranks :
           /\ hist.markersHanded[r][<<t, dst>>] = 1
           /\ <<t, dst>> \notin hist.dataAfterMarker[r]

\* C4: a sendMessage call on a tag that is in sendAccept goes on to append
\* its payload to a buffer, and a call on a tag that is not in sendAccept
\* returns without creating or changing a buffer and without enqueuing.
C4_BuffersIffAccepting ==
  [][\A r \in Ranks, u \in Users, tag \in Tags, dst \in Ranks, count \in PayloadCounts :
       sendMessage(r, u, tag, dst, count) =>
         IF tag \in sendAccept[r]
         THEN user'[r][u].pc # "idle"
         ELSE /\ user'[r][u].pc = "idle"
              /\ buffers' = buffers
              /\ sendQueue' = sendQueue]_vars

\* C5: after addReceiveCallback(tag, fn) for a tag for which it was never
\* called before, callbackFunctions[tag] is fn, recvRemaining[tag] is the
\* number of ranks and tag is in sendAccept.
C5_FirstRegistrationTakesEffect ==
  [][\A r \in Ranks, u \in Users, tag \in Tags :
       (addReceiveCallback(r, u, tag) /\ tag \notin hist.registerCalled[r]) =>
         /\ tag \in DOMAIN callbackFunctions'[r]
         /\ callbackFunctions'[r][tag] = "fn"
         /\ tag \in DOMAIN recvRemaining'[r]
         /\ recvRemaining'[r][tag] = NumRanks
         /\ tag \in sendAccept'[r]]_vars

\* C6: no end-of-stream message (count = 0) is in the inbound queue of a rank
\* while recvRemaining[tag] > 0 there, the marker the rank sent to itself
\* included, and the callback of a tag gets at most one end-of-stream message.
C6_EndOfStreamGated ==
  \A r \in Ranks :
    /\ \A i \in 1 .. Len(recvQueue[r]) :
         LET msg == recvQueue[r][i] IN
         msg.count = 0 =>
           ~(msg.tag \in DOMAIN recvRemaining[r] /\ recvRemaining[r][msg.tag] > 0)
    /\ \A t \in Tags :
         Cardinality({i \in 1 .. Len(hist.delivered[r]) :
                        /\ hist.delivered[r][i].count = 0
                        /\ hist.delivered[r][i].tag = t}) <= 1

\* C7: every flush(tag) called while tag was in sendAccept has pushed one
\* end-of-stream marker for each of the P destinations by the time it
\* returns, also when no sendMessage(tag) was issued on the rank before.
C7_FlushEnqueuesAllMarkers ==
  \A r \in Ranks : \A e \in hist.flushed[r] :
    e.accepting => e.markers = NumRanks

(***************************************************************************)
(* Callbacks that send.                                                    *)
(***************************************************************************)
\* the communication thread of r is inside recvQueue.waitAndPush and the
\* inbound queue is full
CommBlockedInPush(r) ==
  commThread[r] = "waitAndPush" /\ ~RecvQueueHasRoom(r)

\* the callback thread of r is inside the sendQueue.waitAndPush of the
\* sendMessage its callback made, and the outbound queue is full
CallbackBlockedInPush(r) ==
  LET c == user[r][CallbackCaller] IN
  /\ c.pc = "check"
  /\ ~isEmpty(getBackBuffer(buffers[r][c.tag], c.buf))
  /\ Len(sendQueue[r]) >= sendQueueCapacity

\* C18: with a callback that calls sendMessage, the state in which the
\* communication thread is blocked in recvQueue.waitAndPush on a full inbound
\* queue while the callback thread is blocked in sendQueue.waitAndPush on a
\* full outbound queue is never reached
C18_NoDeadlockWhenCallbacksSend ==
  \A r \in Ranks : ~(CommBlockedInPush(r) /\ CallbackBlockedInPush(r))

(***************************************************************************)
(* The end of the callback threads.                                        *)
(***************************************************************************)
\* the inbound queue of r is drained and recvRemaining is empty
Drained(r) == recvQueue[r] = <<>> /\ DOMAIN recvRemaining[r] = {}

\* C19: every callback thread returns once the inbound queue is drained and
\* recvRemaining is empty for good; none stays inside waitAndPop for ever
C19_CallbackThreadsExit ==
  \A k \in 1 .. NumCallbackThreads :
    <>[](Drained(Receiver) /\ Running(Receiver))
      => <>(callbackThread[Receiver][k] = "done")

(***************************************************************************)
(* The order of the buffers of one (tag, dst).                             *)
(***************************************************************************)
\* the buffers with data that left the active slot of (tag, dst) on src, in
\* the order of their swaps
SwappedOut(src, tag, dst) ==
  SelectSeq(hist.swapped[src],
            LAMBDA e : e.tag = tag /\ e.dst = dst /\ e.count > 0)

\* the data messages of (src, tag) the callback of dst got, in their order
DeliveredData(src, tag, dst) ==
  SelectSeq(hist.delivered[dst],
            LAMBDA m : m.src = src /\ m.tag = tag /\ m.count > 0)

\* message m carries the bytes of the swapped-out buffer e
Carries(m, e) ==
  m.count = e.count /\ \A i \in 1 .. m.count : m.data[i] = e.data[i]

\* C20: for a fixed (tag, dst), also with two producer threads, the callback
\* on dst gets the buffers in the order in which they were swapped out of the
\* active slot on the sender
C20_DeliveredInSwapOrder ==
  \A src \in Ranks, dst \in Ranks, tag \in Tags :
    LET s == SwappedOut(src, tag, dst)
        d == DeliveredData(src, tag, dst)
    IN \A i \in 1 .. Len(d), j \in 1 .. Len(d) :
         i < j => \E a \in 1 .. Len(s), b \in 1 .. Len(s) :
                    a < b /\ Carries(d[i], s[a]) /\ Carries(d[j], s[b])

(***************************************************************************)
(* Loopback: elements whose destination is the own rank.                   *)
(***************************************************************************)
\* what tryStartSend has to do with the element se of rank r whose
\* destination is r: nothing goes to the transport or to sendInProgress; one
\* message is appended to the inbound queue, with the tag and src = r; for a
\* buffer it carries the size committed bytes and the buffer is released,
\* for a marker it has count 0
LoopbackEffect(r, se) ==
  LET b == getBackBuffer(buffers[r][se.tag], se.bufferId)
      m == recvQueue'[r][Len(recvQueue'[r])]
  IN
  /\ network' = network
  /\ sendInProgress' = sendInProgress
  /\ Len(recvQueue'[r]) = Len(recvQueue[r]) + 1
  /\ SubSeq(recvQueue'[r], 1, Len(recvQueue[r])) = recvQueue[r]
  /\ m.tag = se.tag /\ m.src = r
  /\ IF se.bufferId = -1
     THEN m.count = 0 /\ buffers' = buffers
     ELSE /\ m.count = getSize(b)
          /\ getSize(b) <= b.capacity
          /\ \A k \in 1 .. m.count : m.data[k] = b.data[k]
          /\ se.bufferId \in buffers'[r][se.tag].free
          /\ isEmpty(getBackBuffer(buffers'[r][se.tag], se.bufferId))

\* C21: every element that tryStartSend pops with dst equal to the own rank
\* is handed to the inbound queue as one message (a copy of the committed
\* bytes with count = size, or count 0 for a marker), nothing is posted to the
\* transport, and a buffer is released afterwards
C21_Loopback ==
  [][\A r \in Ranks, i \in 1 .. sendQueueCapacity :
       (tryStartSend(r, i) /\ sendQueue[r][i].dst = r)
         => LoopbackEffect(r, sendQueue[r][i])]_vars

\* a rank got a buffer and a marker of its own through the loopback
C21_Witness ==
  \E r \in Ranks :
    /\ \E i \in 1 .. Len(hist.delivered[r]) :
         hist.delivered[r][i].src = r /\ hist.delivered[r][i].count > 0
    /\ \E i \in 1 .. Len(hist.delivered[r]) :
         hist.delivered[r][i].src = r /\ hist.delivered[r][i].count = 0

(***************************************************************************)
(* Two tags.                                                               *)
(***************************************************************************)
\* flush(tag) has returned on r after it pushed its markers
FlushReturned(r, tag) ==
  \E e \in hist.flushed[r] : e.tag = tag /\ e.markers > 0

\* a step of flush(t1) on r: its entry, or a step of its loop
FlushStepOf(r, t1) ==
  \/ \E u \in Users : flush(r, u, t1)
  \/ \E u \in Users : user[r][u].tag = t1 /\ (FlushData(r, u) \/ FlushMarker(r, u))

\* the per-tag state of t2 on r is the same before and after the step
TagUnchanged(r, t2) ==
  /\ (t2 \in sendAccept'[r]) = (t2 \in sendAccept[r])
  /\ (t2 \in DOMAIN recvRemaining'[r]) = (t2 \in DOMAIN recvRemaining[r])
  /\ t2 \in DOMAIN recvRemaining[r] => recvRemaining'[r][t2] = recvRemaining[r][t2]
  /\ (t2 \in DOMAIN callbackFunctions'[r]) = (t2 \in DOMAIN callbackFunctions[r])
  /\ t2 \in DOMAIN callbackFunctions[r]
       => callbackFunctions'[r][t2] = callbackFunctions[r][t2]
  /\ (t2 \in DOMAIN buffers'[r]) = (t2 \in DOMAIN buffers[r])
  /\ t2 \in DOMAIN buffers[r] => buffers'[r][t2].active = buffers[r][t2].active

\* C22: flush(t1) leaves the per-tag state of every other tag t2 unchanged;
\* once flush(t1) has returned, a sendMessage on t1 is rejected, and a
\* sendMessage on a registered tag t2 that was not flushed goes on to commit
\* its bytes
C22_TagsIsolated ==
  [][\A r \in Ranks, t1 \in TwoTags :
       /\ \A t2 \in TwoTags \ {t1} : FlushStepOf(r, t1) => TagUnchanged(r, t2)
       /\ \A u \in Users, dst \in Ranks :
            ProducerSend(r, u, t1, dst, 1) =>
              /\ FlushReturned(r, t1) => user'[r][u].pc = "idle"
              /\ (t1 \notin hist.flushCalled[r] /\ t1 \in hist.registerCalled[r]
                  /\ \E t2 \in TwoTags \ {t1} : FlushReturned(r, t2))
                   => user'[r][u].pc # "idle"]_vars

(***************************************************************************)
(* Conservation of the buffers of a pool.                                  *)
(***************************************************************************)
\* the number of buffers on the free-list of a MessageBuffers after its
\* construction
InitialFree(mb) == Cardinality(DOMAIN mb.pool) - Cardinality(DOMAIN mb.active)

\* buffer id of tag on r is on its way to a release: a thread holds it as
\* the fullId of its swap, or it is on the outbound queue or in sendInProgress
OnTheWay(r, tag, id) ==
  \/ \E u \in Users : /\ user[r][u].pc = "check"
                      /\ user[r][u].tag = tag /\ user[r][u].buf = id
  \/ \E i \in 1 .. Len(sendQueue[r]) :
       sendQueue[r][i].tag = tag /\ sendQueue[r][i].bufferId = id
  \/ \E i \in 1 .. Len(sendInProgress[r]) :
       sendInProgress[r][i].tag = tag /\ sendInProgress[r][i].bufferId = id

\* C23: every buffer that was swapped out of an active slot, an empty one
\* included, is released to the pool: a buffer that is neither active nor
\* free is on its way to its release, and when the communication thread has
\* returned and no user thread is inside a call, the free-list of each used
\* tag holds its initial number of buffers
C23_BuffersConserved ==
  \A r \in Ranks : \A tag \in DOMAIN buffers[r] :
    LET mb == buffers[r][tag] IN
    Running(r) =>
      /\ \A id \in DOMAIN mb.pool :
           \/ \E d \in DOMAIN mb.active : mb.active[d] = id
           \/ id \in mb.free
           \/ OnTheWay(r, tag, id)
      /\ (commThread[r] = "done" /\ \A u \in Users : user[r][u].pc = "idle")
           => Cardinality(mb.free) = InitialFree(mb)

(***************************************************************************)
(* The states of the buffers of a pool.                                    *)
(***************************************************************************)
\* the destinations whose active slot names buffer id
ActiveFor(mb, id) == {d \in DOMAIN mb.active : mb.active[d] = id}

\* C24: every buffer of the pool of a tag is in exactly one of the states
\* active (for exactly one destination), in transit (its id on the way to the
\* outbound queue, on it, or in sendInProgress) or free; so flush enqueues no
\* buffer that is still active and no active buffer is on the free-list
C24_BufferInOneState ==
  \A r \in Ranks : \A tag \in DOMAIN buffers[r] :
    LET mb == buffers[r][tag] IN
    Running(r) =>
      \A id \in DOMAIN mb.pool :
        LET active == ActiveFor(mb, id) # {}
            transit == OnTheWay(r, tag, id)
            free == id \in mb.free
        IN /\ Cardinality(ActiveFor(mb, id)) <= 1
           /\ active \/ transit \/ free
           /\ ~(active /\ transit) /\ ~(active /\ free) /\ ~(transit /\ free)

(***************************************************************************)
(* What a call of sendMessage has done when it returns.                    *)
(***************************************************************************)
\* the number of committed bytes of buffer b that belong to payload id
BytesOf(b, id) ==
  Cardinality({i \in 1 .. b.capacity : i <= b.size /\ b.data[i] = id})

\* payload id of count bytes lies in exactly one buffer of the pool of tag
AppendedOnce(r, tag, id, count) ==
  /\ tag \in DOMAIN buffers[r]
  /\ \E k \in DOMAIN buffers[r][tag].pool :
       /\ BytesOf(buffers[r][tag].pool[k], id) = count
       /\ \A j \in DOMAIN buffers[r][tag].pool \ {k} :
            BytesOf(buffers[r][tag].pool[j], id) = 0

\* a step in which user thread u of r calls sendMessage with the bytes id for
\* a tag of sendAccept and the call returns in the same step
ReturnsAtOnce(r, u, tag, dst, count, id) ==
  /\ tag \in sendAccept[r]
  /\ \/ sendMessage(r, u, tag, dst, count) /\ id = PayloadId(r, u)
     \/ /\ ProducerSend(r, u, tag, dst, count)
        /\ id = ProducerPayloadId(u, calls[r][u] + 1)
  /\ user'[r][u].pc = "idle"

\* C25: when sendMessage returns on a tag of sendAccept its payload lies
\* exactly once in exactly one buffer of the tag; the thread that got the id
\* of a non-empty swapped-out buffer pushes it exactly once onto the outbound
\* queue, and waits, keeping the id, while the queue is full
C25_SendMessageAppendsOnce ==
  [][\A r \in Ranks : \A u \in Users :
       /\ \A tag \in Tags \cup TwoTags : \A dst \in Ranks : \A count \in PayloadCounts \cup {1} :
            \A id \in {PayloadId(r, u), ProducerPayloadId(u, calls[r][u] + 1)} :
              ReturnsAtOnce(r, u, tag, dst, count, id)
                => AppendedOnce(r, tag, id, count)'
       /\ (user[r][u].pc # "idle" /\ user[r][u].accepting /\ user'[r][u].pc = "idle")
            => AppendedOnce(r, user[r][u].tag, user[r][u].id, user[r][u].count)'
       /\ (user[r][u].pc = "check" /\ user'[r][u] # user[r][u])
            => sendQueue'[r] =
                 IF isEmpty(getBackBuffer(buffers[r][user[r][u].tag], user[r][u].buf))
                 THEN sendQueue[r]
                 ELSE Append(sendQueue[r],
                             SendQueueElement(user[r][u].buf, user[r][u].tag,
                                              user[r][u].dst, u))
       /\ (user[r][u].pc = "check" /\ user'[r][u] = user[r][u]
             /\ sendQueue'[r] # sendQueue[r])
            => \A i \in 1 .. Len(sendQueue'[r]) :
                 sendQueue'[r][i].producer # u]_vars

(***************************************************************************)
(* sendMessage and flush in the steps of their accesses to sendAccept and  *)
(* to the map buffers, to see which of them overlap.                       *)
(***************************************************************************)
\* sendMessage is called: the thread is at sendAccept.find(tag), which it
\* makes without the mutex
SendMessageEnter(r, u, tag, dst, count) ==
  /\ Running(r)
  /\ user[r][u].pc = "idle"
  /\ calls[r][u] < MaxSends
  /\ calls' = [calls EXCEPT ![r][u] = @ + 1]
  /\ user' = [user EXCEPT ![r][u] =
                [UserIdle EXCEPT !.pc = "find", !.tag = tag, !.dst = dst,
                                 !.count = count,
                                 !.id = ProducerPayloadId(u, calls[r][u] + 1)]]
  /\ UNCHANGED <<callbackFunctions, sendAccept, recvRemaining, buffers, sendQueue,
                 recvQueue, sendInProgress, recvInProgress, network, commThread,
                 callbackThread, crashed, hist>>
  /\ UNCHANGED <<bufVars, queueVars>>

\* sendMessage: if (sendAccept.find(tag) != sendAccept.end()) return; then
\* lock(mutex) and buffers.find(tag); a tag that has its MessageBuffers goes on
\* to append
SendAcceptFind(r, u) ==
  LET c == user[r][u] IN
  /\ Running(r)
  /\ c.pc = "find"
  /\ hist' = [hist EXCEPT !.sentAfterFlush[r] =
                @ \cup (IF c.tag \in hist.flushCalled[r] THEN {c.tag} ELSE {})]
  /\ IF c.tag \in sendAccept[r]
     THEN user' = [user EXCEPT ![r][u] = UserIdle]
     ELSE /\ \A v \in Users \ {u} : user[r][v].pc # "insert"
          /\ user' = [user EXCEPT ![r][u] =
                        IF c.tag \in DOMAIN buffers[r]
                        THEN EnterAppend(buffers[r][c.tag], c)
                        ELSE [c EXCEPT !.pc = "insert"]]
  /\ UNCHANGED <<callbackFunctions, sendAccept, recvRemaining, buffers, sendQueue,
                 recvQueue, sendInProgress, recvInProgress, network, commThread,
                 callbackThread, crashed, calls>>
  /\ UNCHANGED <<bufVars, queueVars>>

\* sendMessage, holding the mutex: buffers[tag] = BuffersType(commSize, 8192);
\* lock.unlock(); the first call of append
BuffersInsert(r, u) ==
  LET c == user[r][u]
      mbs == MapPut(buffers[r], c.tag, MessageBuffers(NumRanks, MsgBufCapacity))
  IN
  /\ Running(r)
  /\ c.pc = "insert"
  /\ buffers' = [buffers EXCEPT ![r] = mbs]
  /\ user' = [user EXCEPT ![r][u] = EnterAppend(mbs[c.tag], c)]
  /\ UNCHANGED <<callbackFunctions, sendAccept, recvRemaining, sendQueue,
                 recvQueue, sendInProgress, recvInProgress, network, commThread,
                 callbackThread, crashed, calls, hist>>
  /\ UNCHANGED <<bufVars, queueVars>>

\* flush, the marker of a destination that is not the last one
FlushInnerMarker(r, u) ==
  /\ user[r][u].dst + 1 < NumRanks
  /\ FlushMarker(r, u)

\* flush, the marker of the last destination is pushed: the thread is at
\* sendAccept.erase(tag), which it makes without the mutex
FlushLastMarker(r, u) ==
  LET c == user[r][u] IN
  /\ Running(r)
  /\ c.pc = "flushMarker"
  /\ c.dst + 1 = NumRanks
  /\ Len(sendQueue[r]) < sendQueueCapacity
  /\ sendQueue' = [sendQueue EXCEPT ![r] =
                     Append(@, SendQueueElement(-1, c.tag, c.dst, u))]
  /\ user' = [user EXCEPT ![r][u].pc = "erase", ![r][u].markers = c.markers + 1]
  /\ UNCHANGED <<callbackFunctions, sendAccept, recvRemaining, buffers, recvQueue,
                 sendInProgress, recvInProgress, network, commThread,
                 callbackThread, crashed, calls, hist>>
  /\ UNCHANGED <<bufVars, queueVars>>

\* flush: sendAccept.erase(tag); return
FlushErase(r, u) ==
  LET c == user[r][u] IN
  /\ Running(r)
  /\ c.pc = "erase"
  /\ sendAccept' = [sendAccept EXCEPT ![r] = @ \ {c.tag}]
  /\ user' = [user EXCEPT ![r][u] = UserIdle]
  /\ hist' = [hist EXCEPT !.flushed[r] =
                @ \cup {FlushRecord(c.tag, c.tag \in hist.registerCalled[r],
                                    c.accepting, c.markers)}]
  /\ UNCHANGED <<callbackFunctions, recvRemaining, buffers, sendQueue, recvQueue,
                 sendInProgress, recvInProgress, network, commThread,
                 callbackThread, crashed, calls>>
  /\ UNCHANGED <<bufVars, queueVars>>

\* a state in the middle of a run: Receiver has sent one byte under the first
\* tag and registered its callback (a registration that took effect); the
\* second tag is new to it.  Its main thread is about to call flush.
InitLookups ==
  LET r == Receiver
      t == CHOOSE x \in TwoTags : \A y \in TwoTags : x <= y
  IN
  /\ InitBuffer /\ InitQueue
  /\ \E dst \in Ranks :
       InitCommAt(
         [x \in Ranks |-> IF x = r THEN MapPut(EmptyMap, t, "fn") ELSE EmptyMap],
         [x \in Ranks |-> IF x = r THEN {t} ELSE {}],
         [x \in Ranks |-> IF x = r THEN MapPut(EmptyMap, t, NumRanks) ELSE EmptyMap],
         [x \in Ranks |-> IF x = r THEN MapPut(EmptyMap, t, OneByteFor(r, dst))
                                   ELSE EmptyMap],
         [x \in Ranks |-> [u \in Users |-> IF x = r /\ u = 1 THEN 3 ELSE 0]],
         [HistAt(TwoTags, r, MaxSwaps) EXCEPT !.registerCalled[r] = {t}])

\* the threads of Receiver: its main thread flushes while a second user
\* thread sends, the communication thread empties the outbound queue
NextLookups ==
  \/ \E tag \in TwoTags : flush(Receiver, 1, tag)
  \/ FlushData(Receiver, 1)
  \/ FlushInnerMarker(Receiver, 1)
  \/ FlushLastMarker(Receiver, 1)
  \/ FlushErase(Receiver, 1)
  \/ \E tag \in TwoTags, dst \in Ranks, count \in PayloadCounts :
       SendMessageEnter(Receiver, CallbackCaller, tag, dst, count)
  \/ SendAcceptFind(Receiver, CallbackCaller)
  \/ BuffersInsert(Receiver, CallbackCaller)
  \/ SendAppend(Receiver, CallbackCaller)
  \/ SendRollback(Receiver, CallbackCaller)
  \/ SendCheckFull(Receiver, CallbackCaller)
  \/ finishSends(Receiver)
  \/ \E i \in 1 .. sendQueueCapacity : tryStartSend(Receiver, i)
  \/ CommIterate(Receiver)

\* sendMessage and flush step by step on one rank
SpecLookups == InitLookups /\ [][NextLookups]_vars

\* user thread u of r is inside a lookup that it makes without the mutex:
\* sendAccept.find(tag) of sendMessage, or buffers[tag] in the loop of
\* sendMessage or of flush
InUnlockedLookup(r, u) ==
  user[r][u].pc \in {"find", "append", "check", "spin", "flushData"}

\* user thread u of r is modifying sendAccept (flush) or the map buffers
\* (sendMessage, holding the mutex)
InModification(r, u) == user[r][u].pc \in {"erase", "insert"}

\* C26: no user thread is inside one of the lookups that sendMessage and
\* flush make without the mutex while another thread of the rank is inside
\* flush's erase from sendAccept or inside the insertion of a new tag into
\* buffers
C26_LockDiscipline ==
  \A r \in Ranks : \A u \in Users : \A v \in Users \ {u} :
    ~(InUnlockedLookup(r, u) /\ InModification(r, v))

(***************************************************************************)
(* The count of end-of-stream markers a rank still expects.                *)
(***************************************************************************)
\* C27: no value of recvRemaining is negative after any step, and the steps
\* that take a message off recvInProgress (finishReceives) add no tag to
\* recvRemaining: a surplus marker is not counted below 0 and an entry that
\* was removed at 0 is not inserted again
C27_RecvRemainingNotNegative ==
  [][\A r \in Ranks :
       /\ \A tag \in DOMAIN recvRemaining'[r] : recvRemaining'[r][tag] >= 0
       /\ recvInProgress'[r] # recvInProgress[r] /\ Len(recvInProgress'[r]) < Len(recvInProgress[r])
            => DOMAIN recvRemaining'[r] \subseteq DOMAIN recvRemaining[r]]_vars

(***************************************************************************)
(* What a rejected registration leaves behind.                             *)
(***************************************************************************)
\* a step in which addReceiveCallback(tag) is called on r and rejected: the
\* tag had a callback, or it has none after the call
RejectedRegistration(r, tag) ==
  /\ \E u \in Users : addReceiveCallback(r, u, tag)
  /\ tag \in DOMAIN callbackFunctions[r] \/ tag \notin DOMAIN callbackFunctions'[r]

\* C28: a rejected call of addReceiveCallback changes nothing of the state
\* kept per tag: the callbacks, recvRemaining and sendAccept of the rank are
\* what they were
C28_RejectedRegistrationNoEffect ==
  [][\A r \in Ranks : \A tag \in Tags :
       RejectedRegistration(r, tag)
         => /\ callbackFunctions'[r] = callbackFunctions[r]
            /\ recvRemaining'[r] = recvRemaining[r]
            /\ sendAccept'[r] = sendAccept[r]]_vars

(***************************************************************************)
(* A Buffer used by a single thread: append, append_lockfree, the append   *)
(* of Buffer<THREAD_UNSAFE>, block, clear, and the buffer as the source of *)
(* a move.                                                                 *)
(***************************************************************************)
\* the thread that uses the buffer
SingleThread == CHOOSE t \in Appenders : \A x \in Appenders : t <= x

\* Buffer<THREAD_UNSAFE>::append(typed_data, count): the capacity test, the
\* isBlocked() test, (size + count) > capacity, memcpy, size += count
AppendUnsafe(t, count) ==
  LET fits == ~ExceedsCapacity(buffer, buffer.size, count) IN
  /\ appendCall[t].pc = "idle"
  /\ nAppendCalls < MaxAppendCalls
  /\ nAppendCalls' = nAppendCalls + 1
  /\ appendCall' = [appendCall EXCEPT ![t] =
                      IF buffer.capacity = 0 THEN Thrown ELSE Idle]
  /\ IF buffer.capacity # 0 /\ ~isBlocked(buffer) /\ fits
     THEN /\ buffer' = [memcpy(buffer, buffer.size, count, nAppendCalls + 1)
                          EXCEPT !.size = Wrap(buffer.size + count)]
          /\ returnedTrue' = returnedTrue + 1
     ELSE UNCHANGED <<buffer, returnedTrue>>
  /\ UNCHANGED <<observed, reserved, cleared, clearRaced, outOfBounds>>
  /\ UNCHANGED <<commVars, queueVars>>

\* the buffer is the source of a move construction or of a move assignment:
\* under its mutex, other.size = 0; other.capacity = 0; other.blocked = true;
\* other.data = nullptr
MovedFrom ==
  /\ \A t \in Appenders : appendCall[t].pc = "idle"
  /\ MutexFree(buffer)
  /\ buffer.capacity # 0
  /\ buffer' = [capacity |-> 0, size |-> 0, blocked |-> TRUE,
                data |-> [i \in 1 .. 0 |-> 0], mutex |-> 0]
  /\ UNCHANGED <<appendCall, observed, reserved, returnedTrue, nAppendCalls,
                 cleared, clearRaced, outOfBounds>>
  /\ UNCHANGED <<commVars, queueVars>>

\* block() called by the thread between two of its append calls
BlockBetweenCalls ==
  /\ appendCall[SingleThread].pc = "idle"
  /\ Block

\* clear() called by the thread between two of its append calls
ClearBetweenCalls ==
  /\ appendCall[SingleThread].pc = "idle"
  /\ buffer.capacity # 0
  /\ Clear

\* the calls of the single thread
NextSingleThread ==
  \/ \E count \in 1 .. MaxCount : AppendCall(SingleThread, count)
  \/ AppendFetchAdd(SingleThread)
  \/ AppendFetchSub(SingleThread)
  \/ AppendMemcpy(SingleThread)
  \/ \E count \in 1 .. MaxCount : LockfreeCall(SingleThread, count)
  \/ LockfreeLoad(SingleThread)
  \/ LockfreeCAS(SingleThread)
  \/ \E count \in 1 .. MaxCount : AppendUnsafe(SingleThread, count)
  \/ BlockBetweenCalls
  \/ ClearBetweenCalls
  \/ MovedFrom

\* one Buffer and one thread
SpecSingleThread == Init /\ [][NextSingleThread]_vars

\* the cells of the buffer outside (s, s + count] are what they were, and the
\* cells inside carry the bytes of call id
BytesWritten(b, nb, s, count, id) ==
  \A i \in 1 .. b.capacity :
    nb.data[i] = IF i > s /\ i <= s + count THEN id ELSE b.data[i]

\* a step in which a call made in state b returns true: size has grown by
\* count from s, the bytes lie at [s, s + count), nothing else has changed
ReturnsTrue(b, s, count, id) ==
  /\ returnedTrue' = returnedTrue + 1
  /\ buffer'.size = s + count
  /\ buffer'.capacity = b.capacity
  /\ buffer'.blocked = b.blocked
  /\ BytesWritten(b, buffer', s, count, id)

\* a step in which a call returns false: size is s, as at the call, and
\* blocked and the bytes are what they were
ReturnsFalse(b, s) ==
  /\ returnedTrue' = returnedTrue
  /\ buffer'.size = s
  /\ buffer'.capacity = b.capacity
  /\ buffer'.blocked = b.blocked
  /\ buffer'.data = b.data

C30_BlockedAppendReturnsFalse ==
  [][\A t \in Appenders : \A n \in 1 .. MaxCount :
       (/\ isBlocked(buffer)
        /\ AppendCall(t, n) \/ LockfreeCall(t, n) \/ AppendUnsafe(t, n))
         => /\ appendCall'[t] = Idle
            /\ buffer' = buffer
            /\ returnedTrue' = returnedTrue]_vars

(***************************************************************************)
(* The queue when it is full: a push that fails while another push is      *)
(* being rolled back.                                                      *)
(***************************************************************************)
\* the queue after QueueCapacity pushes of two producers have returned; the
\* calls are counted from here
InitQueueFull ==
  /\ InitBuffer /\ InitComm
  /\ queue = [capacity |-> QueueCapacity, size |-> QueueCapacity,
              q |-> [i \in 1 .. QueueCapacity |->
                       [val |-> 0 - i, producer |-> 1 + (i % 2)]]]
  /\ queueCall = [t \in QueueThreads |-> QueueIdle]
  /\ queueObserved = 0
  /\ queueHist = [nCalls |-> 0, pushed |-> {}, failed |-> {}, popped |-> {},
                  poppedTwice |-> {}, popFailed |-> {}]

\* the non-blocking calls on the queue, and the push bit
NextQueueFull ==
  \/ \E t \in QueueThreads : tryPush(t)
  \/ \E t \in QueueThreads : tryPop(t)
  \/ \E t \in QueueThreads : PushEnqueue(t)
  \/ \E t \in QueueThreads : PushRollback(t)
  \/ \E t \in QueueThreads : PopFetchSub(t)
  \/ disablePush
  \/ enablePush

\* the queue and the callers of tryPush and tryPop, starting from a full queue
SpecQueueFull == InitQueueFull /\ [][NextQueueFull]_vars

\* the slots of the queue that are taken: the stored elements, the slots
\* reserved by a push that is about to enqueue, and the slots of elements
\* that a pop has taken and not yet given back to the length
Occupied(qu) ==
  Len(qu.q) + Cardinality({t \in QueueThreads : queueCall[t].pc \in {"enqueue", "popsub"}})

\* C31: a tryPush made while push is enabled and fewer than capacity slots
\* are taken goes on to enqueue and returns true, whatever reservations of
\* other producers are being rolled back
C31_TryPushFailsOnlyWhenFull ==
  [][\A t \in QueueThreads :
       (tryPush(t) /\ canPush(queue) /\ Occupied(queue) < queue.capacity)
         => queueCall'[t].pc = "enqueue"]_vars

(***************************************************************************)
(* The order of the callback invocations of a tag.                         *)
(***************************************************************************)
\* the mid-run state in which Receiver has its callback registered and one
\* byte buffered, and is about to call flush
InitEndOfStream == InitBuffer /\ InitRegistered(1) /\ InitQueue

\* the threads of Receiver while it flushes and its peer still sends data
NextEndOfStream ==
  \/ \E src \in Ranks, tag \in Tags : RemoteSend(src, Receiver, tag)
  \/ \E tag \in Tags : flush(Receiver, 1, tag)
  \/ FlushData(Receiver, 1)
  \/ FlushMarker(Receiver, 1)
  \/ finishReceives(Receiver)
  \/ FinishReceivesWait(Receiver)
  \/ finishSends(Receiver)
  \/ \E src \in Ranks : tryStartReceive(Receiver, src)
  \/ \E i \in 1 .. sendQueueCapacity : tryStartSend(Receiver, i)
  \/ CommIterate(Receiver)
  \/ CallbackInvoke(Receiver, 1)

\* a rank that flushes while data of its peer is still arriving
SpecEndOfStream == InitEndOfStream /\ [][NextEndOfStream]_vars

\* C32: on each rank, no message with data is delivered to the callback of a
\* tag after the end-of-stream message (count 0) of that tag was delivered
C32_EndOfStreamIsLast ==
  \A r \in Ranks :
    \A i \in DOMAIN hist.delivered[r] : \A j \in DOMAIN hist.delivered[r] :
      (i < j /\ hist.delivered[r][i].tag = hist.delivered[r][j].tag
             /\ hist.delivered[r][i].count = 0)
        => hist.delivered[r][j].count = 0

(***************************************************************************)
(* The release of the buffers of remote sends.                             *)
(***************************************************************************)
\* the buffers of tag that rank r has handed to the transport in sends that
\* are still in progress
InProgressIds(r, tag) ==
  {sendInProgress[r][i].bufferId : i \in
     {j \in 1 .. Len(sendInProgress[r]) :
        sendInProgress[r][j].tag = tag /\ sendInProgress[r][j].bufferId # -1}}

\* a step of r that retires the oldest send in progress
RetiresFront(r) ==
  /\ sendInProgress[r] # <<>>
  /\ sendInProgress'[r] = Tail(sendInProgress[r])

\* C33: the buffer of a remote send is on the free-list only after the send
\* was retired, and is put there once; the sends in progress are retired
\* oldest first, new ones join at the end; retiring an end-of-stream marker
\* releases nothing
C33_RemoteReleaseAfterCompletion ==
  [][\A r \in Ranks :
       /\ \A tag \in DOMAIN buffers'[r] :
            Running(r)' => InProgressIds(r, tag)' \cap buffers'[r][tag].free = {}
       /\ sendInProgress'[r] # sendInProgress[r] =>
            \/ RetiresFront(r)
            \/ \E se \in {sendQueue[r][i] : i \in 1 .. Len(sendQueue[r])} :
                 sendInProgress'[r] = Append(sendInProgress[r], se)
       /\ (RetiresFront(r) /\ sendInProgress'[r] # sendInProgress[r]) =>
            LET front == Head(sendInProgress[r]) IN
            IF front.bufferId = -1
            THEN buffers'[r] = buffers[r]
            ELSE /\ front.bufferId \notin buffers[r][front.tag].free
                 /\ buffers'[r][front.tag].free =
                      buffers[r][front.tag].free \cup {front.bufferId}]_vars

(***************************************************************************)
(* A Buffer on which the threads call append_lockfree only.                *)
(***************************************************************************)
\* append_lockfree called by several threads, with an observer of the size
\* and a thread that blocks the buffer
NextLockfree ==
  \/ \E t \in Appenders, count \in 1 .. MaxCount : LockfreeCall(t, count)
  \/ \E t \in Appenders : LockfreeLoad(t)
  \/ \E t \in Appenders : LockfreeCAS(t)
  \/ \E t \in Appenders : AppendMemcpy(t)
  \/ GetSize
  \/ Block

\* one Buffer, appended to with append_lockfree only
SpecLockfree == Init /\ [][NextLockfree]_vars

\* C34: with append_lockfree only, size and every value of it that a thread
\* observes are at most capacity, and the one step of a call that changes
\* size is its successful compare-and-exchange, after which the call returns
\* true: a call that returns false has not changed size
C34_LockfreeSizeWithinCapacity ==
  [][/\ buffer'.size <= buffer'.capacity
     /\ observed' <= buffer'.capacity
     /\ \A t \in Appenders :
          /\ (appendCall'[t] # appendCall[t] /\ buffer'.size # buffer.size)
               => appendCall'[t].pc = "copy"
          /\ (appendCall[t].pc = "copy" /\ appendCall'[t] # appendCall[t])
               => /\ appendCall'[t].pc = "idle"
                  /\ returnedTrue' = returnedTrue + 1
                  /\ buffer'.size = buffer.size]_vars

\* a thread is in the loop of append_lockfree with a stale value of size,
\* after another thread has taken the room: its compare-and-exchange fails
\* and the call returns false
C34_Witness ==
  \E t \in Appenders :
    /\ appendCall[t].pc = "cas"
    /\ appendCall[t].s # buffer.size
    /\ buffer.size + appendCall[t].count > buffer.capacity
    /\ observed = buffer.capacity

(***************************************************************************)
(* ThreadSafeQueue::clear() next to the non-blocking push and pop.         *)
(***************************************************************************)
\* void clear(), entry: std::lock_guard<std::mutex> lock(mutex), which only
\* clear() takes
QueueClear(t) ==
  /\ QueueMayCall(t)
  /\ \A u \in QueueThreads : queueCall[u].op # "clear"
  /\ queueCall' = [queueCall EXCEPT ![t] = QueueStart(t, "clear", "drain")]
  /\ queueHist' = [queueHist EXCEPT !.nCalls = @ + 1]
  /\ UNCHANGED <<queue, queueObserved>>
  /\ UNCHANGED <<bufVars, commVars>>

\* clear: one evaluation of while (q.try_dequeue(val)); the element taken is
\* discarded, a failed dequeue ends the loop
QueueClearDequeue(t) ==
  /\ queueCall[t].pc = "drain"
  /\ IF queue.q = <<>>
     THEN /\ queueCall' = [queueCall EXCEPT ![t].pc = "reset"]
          /\ UNCHANGED queue
     ELSE /\ \E i \in Dequeueable(queue) :
               queue' = [queue EXCEPT !.q = SubSeq(@, 1, i - 1) \o SubSeq(@, i + 1, Len(@))]
          /\ UNCHANGED queueCall
  /\ UNCHANGED <<queueObserved, queueHist>>
  /\ UNCHANGED <<bufVars, commVars>>

\* clear: size.fetch_and(std::numeric_limits<int64_t>::lowest()); return
QueueClearFetchAnd(t) ==
  /\ queueCall[t].pc = "reset"
  /\ queue' = [queue EXCEPT !.size = IF @ < 0 THEN QueueLowest ELSE 0]
  /\ queueCall' = [queueCall EXCEPT ![t] = QueueIdle]
  /\ UNCHANGED <<queueObserved, queueHist>>
  /\ UNCHANGED <<bufVars, commVars>>

\* clear() and the non-blocking push and pop; the push bit is left alone
NextQueueClear ==
  \/ \E t \in QueueThreads : tryPush(t)
  \/ \E t \in QueueThreads : tryPop(t)
  \/ \E t \in QueueThreads : PushEnqueue(t)
  \/ \E t \in QueueThreads : PushRollback(t)
  \/ \E t \in QueueThreads : PopFetchSub(t)
  \/ \E t \in QueueThreads : QueueClear(t)
  \/ \E t \in QueueThreads : QueueClearDequeue(t)
  \/ \E t \in QueueThreads : QueueClearFetchAnd(t)

\* the queue with callers of clear, tryPush and tryPop
SpecQueueClear == Init /\ [][NextQueueClear]_vars

\* C35: when clear() and the push and pop calls that ran next to it have all
\* returned, the push bit is what it was (push enabled, nothing disables it
\* here) and the length is the number of stored elements
C35_ClearKeepsPushBit ==
  (\A t \in QueueThreads : queueCall[t].pc = "idle")
    => /\ canPush(queue)
       /\ QueueGetSize(queue) = Len(queue.q)

(***************************************************************************)
(* The appends of a Buffer with byte counts up to the largest size_t.      *)
(***************************************************************************)
\* byte counts of the calls: a small one, and the two largest values of size_t
WideCounts == {1, SizeModulus - 2, SizeModulus - 1}

\* the calls of one thread, with the wide byte counts
NextWideCounts ==
  \/ \E count \in WideCounts : AppendCall(SingleThread, count)
  \/ AppendFetchAdd(SingleThread)
  \/ AppendFetchSub(SingleThread)
  \/ AppendMemcpy(SingleThread)
  \/ \E count \in WideCounts : LockfreeCall(SingleThread, count)
  \/ LockfreeLoad(SingleThread)
  \/ LockfreeCAS(SingleThread)
  \/ \E count \in WideCounts : AppendUnsafe(SingleThread, count)

\* one Buffer, one thread, byte counts over the whole range of size_t
SpecWideCounts == Init /\ [][NextWideCounts]_vars

\* C36: no append returns true for a byte count n with size + n above the
\* capacity as a sum of integers, also when size + n wraps in size_t; a call
\* that returns false for that reason leaves size as it was
C36_NoSuccessBeyondCapacity ==
  [][/\ \A t \in Appenders :
          (appendCall[t].pc = "copy" /\ appendCall'[t].pc = "idle")
            => appendCall[t].s + appendCall[t].count <= buffer.capacity
     /\ \A t \in Appenders :
          (appendCall[t].pc = "rollback" /\ appendCall'[t].pc = "idle")
            => buffer'.size = appendCall[t].s
     /\ \A count \in WideCounts :
          (AppendUnsafe(SingleThread, count)
             /\ buffer.size + count > buffer.capacity)
            => (returnedTrue' = returnedTrue /\ buffer'.size = buffer.size)]_vars

\* C37: a send queue element that names a buffer is handed over for
\* transmission with a length above 0, so that a message of count 0 comes
\* from an end-of-stream marker only
C37_NoEmptyDataBuffer ==
  [][\A r \in Ranks :
       \A i \in DOMAIN sendQueue[r] :
         (tryStartSend(r, i) /\ sendQueue[r][i].bufferId # -1)
           => getSize(getBackBuffer(buffers[r][sendQueue[r][i].tag],
                                    sendQueue[r][i].bufferId)) > 0]_vars

\* C38: the callback thread calls a callback only for a tag that has a
\* registered callback function: a message for another tag leads to no call
\* of an empty function object and to no new entry of the callback table
C38_NoCallWithoutCallback ==
  [][\A r \in Ranks :
       \A k \in DOMAIN callbackThread[r] :
         CallbackInvoke(r, k)
           => /\ Head(recvQueue[r]).tag \in DOMAIN callbackFunctions[r]
              /\ callbackFunctions[r][Head(recvQueue[r]).tag] = "fn"
              /\ callbackFunctions'[r] = callbackFunctions[r]
              /\ crashed'[r] = crashed[r]]_vars

(***************************************************************************)
(* The retry loop of sendMessage without a bound on its rounds: the pool   *)
(* hands out buffers for as long as the loop asks for them, and the        *)
(* communication thread keeps draining sendQueue.                          *)
(***************************************************************************)
\* Buffer::append inside sendMessage, the bytes did not fit: size.fetch_sub(count),
\* return false; MessageBuffers::append swaps the buffer out if it is still the
\* active one and the free-list has a buffer, whatever the number of swaps
\* made so far
SendRollbackAgain(r, u) ==
  LET c == user[r][u]
      mb == buffers[r][c.tag]
      b == getBackBuffer(mb, c.buf)
      mb1 == [mb EXCEPT !.pool[c.buf] =
                [b EXCEPT !.size = fetch_sub(b, c.count), !.mutex = 0]]
      wins == mb1.active[c.dst] = c.buf /\ mb1.free # {}
  IN
  /\ Running(r)
  /\ c.pc = "rollback"
  /\ IF wins
     THEN /\ buffers' = [buffers EXCEPT ![r][c.tag] = SwapOut(mb1, c.dst)]
          /\ user' = [user EXCEPT ![r][u].pc = "check"]
     ELSE /\ buffers' = [buffers EXCEPT ![r][c.tag] = mb1]
          /\ user' = [user EXCEPT ![r][u] = EnterAppend(mb1, c)]
  /\ UNCHANGED <<callbackFunctions, sendAccept, recvRemaining, sendQueue,
                 recvQueue, sendInProgress, recvInProgress, network, commThread,
                 callbackThread, crashed, calls, hist>>
  /\ UNCHANGED <<bufVars, queueVars>>

\* the pool supplies a fresh buffer: a buffer that left the active slot empty
\* is queued by nobody and named by no call any more, and its id stands for
\* the buffer the pool creates next
PoolSupply(r, tag) ==
  LET mb == buffers[r][tag] IN
  /\ Running(r)
  /\ tag \in DOMAIN buffers[r]
  /\ \E id \in DOMAIN mb.pool :
       /\ id \notin mb.free
       /\ \A d \in DOMAIN mb.active : mb.active[d] # id
       /\ isBlocked(mb.pool[id])
       /\ isEmpty(mb.pool[id])
       /\ MutexFree(mb.pool[id])
       /\ \A i \in DOMAIN sendQueue[r] :
            ~(sendQueue[r][i].tag = tag /\ sendQueue[r][i].bufferId = id)
       /\ \A i \in DOMAIN sendInProgress[r] :
            ~(sendInProgress[r][i].tag = tag /\ sendInProgress[r][i].bufferId = id)
       /\ \A u \in Users :
            ~(user[r][u].pc # "idle" /\ user[r][u].tag = tag /\ user[r][u].buf = id)
       /\ buffers' = [buffers EXCEPT ![r][tag] = releaseBuffer(mb, id)]
  /\ UNCHANGED <<callbackFunctions, sendAccept, recvRemaining, sendQueue,
                 recvQueue, sendInProgress, recvInProgress, network, user,
                 commThread, callbackThread, crashed, calls, hist>>
  /\ UNCHANGED <<bufVars, queueVars>>

\* a step of user thread u of r inside sendMessage
RetryStep(r, u) ==
  \/ SendAppend(r, u)
  \/ SendRollbackAgain(r, u)
  \/ SendCheckFull(r, u)

\* a step of the communication thread of r on its outbound side
DrainStep(r) ==
  \/ finishSends(r)
  \/ \E i \in 1 .. sendQueueCapacity : tryStartSend(r, i)
  \/ CommIterate(r)

\* the main thread of Sender, which sends under a tag that is not in its
\* sendAccept (the calls that reach the loop), the main thread of Receiver,
\* which sends under the tag that is in its sendAccept, the communication
\* thread of Sender and the pool
NextRetryLoop ==
  \/ \E tag \in Tags, count \in PayloadCounts :
       ProducerSend(Sender, 1, tag, Receiver, count)
  \/ \E tag \in Tags, count \in PayloadCounts :
       ProducerSend(Receiver, 1, tag, Sender, count)
  \/ RetryStep(Sender, 1)
  \/ DrainStep(Sender)
  \/ \E tag \in Tags : PoolSupply(Sender, tag)

\* a thread inside sendMessage that can take a step takes one, the
\* communication thread keeps draining, the pool keeps supplying
FairSpecRetryLoop ==
  /\ InitProducers
  /\ [][NextRetryLoop]_vars
  /\ WF_vars(RetryStep(Sender, 1))
  /\ WF_vars(DrainStep(Sender))
  /\ \A tag \in Tags : WF_vars(PoolSupply(Sender, tag))

=============================================================================
